---- MODULE Spec2Model ----
(***************************************************************************)
(* A model of the zigpy-xbee serial API session (zigpy_xbee/api.py):       *)
(* the frame-ID sequence counter, the table of pending requests, the       *)
(* futures handed to callers and the handlers of received frames; of the   *)
(* framer between the session and the serial port (zigpy_xbee/uart.py);    *)
(* and of the switch to API mode through command mode, and probe.          *)
(***************************************************************************)
EXTENDS Integers, Sequences, FiniteSets, TLC

VARIABLES
    _uart,      \* XBee._uart: "None" or "Gateway"
    _seq,       \* XBee._seq: the frame-ID sequence counter
    _awaiting,  \* XBee._awaiting: frame ID -> index of its future in futures
    futures,    \* every asyncio.Future created by _command, in creation order
    _reset,     \* XBee._reset (asyncio.Event): is it set
    _running,   \* XBee._running (asyncio.Event): is it set
    _app,       \* XBee._app: "None" or "app", the attached application
    issued,     \* history: number of _command calls that wrote a frame
    last,       \* history: what the last operation did (what it returned or raised,
                \* the frames it wrote, the calls it made to the application)
    _buffer,    \* Gateway._buffer: the received bytes not yet consumed
    _in_command_mode,  \* Gateway._in_command_mode
    written,    \* the byte strings given to Gateway._transport.write, in order
    dispatched, \* the calls the Gateway made to frame_received and
                \* command_mode_rsp, in order
    wire,       \* the bytes the serial port has still to deliver
    io,         \* the arguments and results of the calls made to the Gateway
    baudrate,   \* Gateway.baudrate: the baud rate of the serial port
    _cmd_mode_future,  \* XBee._cmd_mode_future
    _connected_future, \* Gateway._connected_future
    _conn_lost_task,   \* XBee._conn_lost_task and the tasks it held before: the
                       \* state and the locals of every reconnection task, in
                       \* creation order
    task        \* the position and the locals of the coroutine that runs
                \* init_api_mode or probe, and what it returned or raised

\* The fields of the session and its history.
xbee_vars == <<_uart, _seq, _awaiting, futures, _reset, _running, _app, issued, last>>

\* The fields of the Gateway, its calls and the serial port, and the
\* command-mode future of the session.  The actions of the session and of the
\* Gateway leave task to the coroutine that calls them.
gw_vars ==
    <<_buffer, _in_command_mode, written, dispatched, wire, io, baudrate,
      _cmd_mode_future>>

\* The fields that follow the serial connection.
conn_vars == <<_connected_future, _conn_lost_task>>

vars == <<xbee_vars, gw_vars, conn_vars, task>>

----------------------------------------------------------------------------
(* Bounds of the exploration. *)

\* Spec: number of _command calls explored from construction.
MaxCommands == 3

\* SpecAT, SpecTx: number of requests issued.
MaxRequests == 2

\* SpecWrap: number of _command calls explored (more than one lap of the counter).
MaxIssued == 257

\* SpecEscape, SpecFramer: length of the byte strings drawn from ByteSample.
MaxLen == 2

\* SpecConn: number of times the session is told that the connection is lost.
MaxLosses == 2

\* SpecLine: number of command-mode writes.
MaxLines == 2

\* SpecReconn: number of connect attempts of one reconnection task.
MaxAttempts == 7

\* SpecLoss: number of failed attempts of one reconnection task.
MaxRetries == 1

\* SpecWrap: callers issue tracked requests only while the counter is at most
\* this frame ID; every other command of the lap is fire-and-forget.
MaxTrackedId == 2

----------------------------------------------------------------------------
(* Optional values: Python's None and a present value. *)

None == <<>>

Some(x) == <<x>>

\* Python truthiness of an optional integer: None and 0 are false.
Truthy(opt) == opt # None /\ opt[1] # 0

----------------------------------------------------------------------------
(* The command descriptors, api.py COMMAND_REQUESTS:                       *)
(* name -> (frame type, schema, expected reply type).                      *)

CommandNames ==
    {"at", "queued_at", "remote_at", "tx", "tx_explicit",
     "create_source_route", "register_joining_device"}

COMMAND_REQUESTS ==
    [name \in CommandNames |->
        CASE name = "at" ->
                [id |-> 8, schema |-> <<"FrameId", "ATCommand", "Bytes">>,
                 reply |-> Some(136)]
          [] name = "queued_at" ->
                [id |-> 9, schema |-> <<"FrameId", "ATCommand", "Bytes">>,
                 reply |-> Some(136)]
          [] name = "remote_at" ->
                [id |-> 23,
                 schema |-> <<"FrameId", "EUI64", "NWK", "uint8_t", "ATCommand", "Bytes">>,
                 reply |-> Some(151)]
          [] name = "tx" ->
                [id |-> 16, schema |-> <<>>, reply |-> None]
          [] name = "tx_explicit" ->
                [id |-> 17,
                 schema |-> <<"FrameId", "EUI64", "NWK", "uint8_t", "uint8_t",
                              "uint16_t", "uint16_t", "uint8_t", "uint8_t", "Bytes">>,
                 reply |-> Some(139)]
          [] name = "create_source_route" ->
                [id |-> 33,
                 schema |-> <<"FrameId", "EUI64", "NWK", "uint8_t", "Relays">>,
                 reply |-> None]
          [] name = "register_joining_device" ->
                [id |-> 36, schema |-> <<>>, reply |-> None]]

----------------------------------------------------------------------------
(* asyncio.Future, with the request that created it.                       *)
(* st: "pending", "result", "exception" or "cancelled"; val: the result or *)
(* the exception; frame_id, born: the frame ID of the request and the      *)
(* number of commands issued before it.                                    *)

\* A result or an exception: kind names the Python type, num an integer
\* value or status code, bytes a byte string, text an exception's message.
Value(kind, num, bytes, text) ==
    [kind |-> kind, num |-> num, bytes |-> bytes, text |-> text]

NoValue == Value("None", 0, <<>>, "")

Future(frame_id, born) ==
    [st |-> "pending", val |-> NoValue, frame_id |-> frame_id, born |-> born]

done(fut) == fut.st # "pending"

\* A received frame of the given type, its fields deserialized.
Frame(type) ==
    [type |-> type, frame_id |-> 0, cmd |-> "", status |-> 0, value |-> <<>>,
     ieee |-> 0, nwk |-> 0, tries |-> 0, src_ep |-> 0, dst_ep |-> 0,
     cluster |-> 0, profile |-> 0, rx_opts |-> 0]

\* What an operation leaves in last when it has nothing to report: op the
\* operation, name the command, mask and frame_id those of a _command call,
\* ret the future returned (0: nothing), raised the exception that left the
\* operation ("": none), sent the frames written to the transport, frame the
\* frame received, calls the calls made to the application, pending_at_send
\* the frame IDs that had an entry in the table when the frames were written.
Quiet(op) ==
    [op |-> op, name |-> "", mask |-> FALSE, frame_id |-> 0,
     ret |-> 0, raised |-> "", sent |-> <<>>, frame |-> Frame(0), calls |-> <<>>,
     pending_at_send |-> {}]

----------------------------------------------------------------------------
(* XBee.__init__ *)

XBee__init__ ==
    /\ _uart = "None"
    /\ _seq = 1
    /\ _awaiting = <<>>
    /\ futures = <<>>
    /\ _reset = FALSE
    /\ _running = FALSE
    /\ _app = "None"
    /\ issued = 0
    /\ last = Quiet("__init__")

\* Gateway.__init__, with a transport nothing was written to yet.
Gateway__init__ ==
    /\ _buffer = <<>>
    /\ _in_command_mode = FALSE
    /\ written = <<>>
    /\ dispatched = <<>>

\* No call was made to the Gateway: data and extra are the arguments to
\* come, op the last call, escaped, ret and rest what the calls returned,
\* calls the number of data_received calls (2: two or more), cut whether a
\* chunk ended right after an escape marker.
Idle(data, extra) ==
    [op |-> "", data |-> data, extra |-> extra,
     escaped |-> <<>>, ret |-> <<>>, rest |-> <<>>,
     calls |-> 0, cut |-> FALSE]

\* No coroutine of init_api_mode or probe was started.  pc: the await the
\* coroutine is at; current_baudrate, sweep (the number of candidate rates
\* taken from the sorted keys, 0 before the loop) and cmds (the commands
\* api_mode_at_commands has still to send): the locals of init_api_mode;
\* ret: what init_api_mode returned ("": nothing yet); history: attempts and
\* configures count the calls of enter_at_command_mode and
\* api_mode_at_commands, target the argument of the last one, rates the
\* baud rate of the port at each attempt.
\* Of probe: probe_pc is the await _probe is at, fut the future of its AT
\* command, result what probe returned ("": nothing yet), raised the
\* exception that left probe, caught the one probe caught, closes the number
\* of times the transport was closed, inits the number of init_api_mode
\* calls.
NoTask ==
    [pc |-> "", current_baudrate |-> 0, sweep |-> 0, cmds |-> <<>>, ret |-> "",
     attempts |-> 0, configures |-> 0, target |-> 0, rates |-> <<>>,
     probe_pc |-> "", fut |-> 0, result |-> "", raised |-> "", caught |-> "",
     closes |-> 0, inits |-> 0]

\* The baud rate the serial port is opened with.
DefaultBaudrate == 57600

Init ==
    /\ XBee__init__ /\ Gateway__init__ /\ wire = <<>> /\ io = Idle(<<>>, <<>>)
    /\ baudrate = DefaultBaudrate /\ _cmd_mode_future = None /\ task = NoTask
    /\ _connected_future = None /\ _conn_lost_task = <<>>

----------------------------------------------------------------------------
(* XBee.connect and XBee.close *)

\* What a future of the connection or of command mode holds when done.
Resolved(value) == Some([st |-> "result", val |-> value])

Rejected(exc) == Some([st |-> "exception", val |-> Value(exc, 0, <<>>, "")])

\* connect(): asserts that there is no transport, then stores the Gateway
\* that uart.connect returns, whose connected future connection_made
\* resolved.  op is the method that was called: "connect", or "reconnect",
\* which returns self.connect().
Connect(op) ==
    /\ _uart = "None"
    /\ _uart' = "Gateway"
    /\ _connected_future' = Resolved(Value("bool", 1, <<>>, ""))
    /\ last' = Quiet(op)
    /\ UNCHANGED <<_seq, _awaiting, futures, _reset, _running, _app, issued>>
    /\ UNCHANGED gw_vars

\* connect() called by the application or by probe.
connect ==
    /\ Connect("connect")
    /\ UNCHANGED _conn_lost_task

\* Faulty variant of close: the pending table is emptied too.
close_forgets_pending ==
    /\ _uart' = "None"
    /\ last' = Quiet("close")
    /\ _awaiting' = <<>>
    /\ UNCHANGED <<_seq, futures, _reset, _running, _app, issued>>
    /\ UNCHANGED gw_vars
    /\ UNCHANGED conn_vars

\* close(): closes and forgets the transport when there is one.
close ==
    /\ _uart' = "None"
    /\ last' = Quiet("close")
    /\ UNCHANGED <<_seq, _awaiting, futures, _reset, _running, _app, issued>>
    /\ UNCHANGED gw_vars
    /\ UNCHANGED conn_vars

----------------------------------------------------------------------------
(* XBee._command *)

\* _api_frame(name, frame_id, *args): the type byte, then the arguments
\* serialized field by field along the descriptor's schema (zip stops at the
\* shorter of schema and arguments, so an empty schema writes no field).
\* payload stands for the serialized arguments after the frame ID.
_api_frame(name, frame_id, payload) ==
    LET c == COMMAND_REQUESTS[name]
    IN  [data |-> <<c.id>> \o (IF c.schema = <<>> THEN <<>> ELSE <<frame_id>> \o payload),
         needs_response |-> c.reply]

\* Faulty variants of NextSeq: a counter over a full byte, and a counter that is
\* not advanced.
NextSeq_mod256(seq) == (seq % 256) + 1

NextSeq_stuck(seq) == seq

\* Faulty variant of NextSeq: a counter that wraps one command early.
NextSeq_wraps_at_254(seq) == (seq % 254) + 1

\* self._seq = (self._seq % 255) + 1
NextSeq(seq) == (seq % 255) + 1

\* frame_id = 0 if mask_frame_id else self._seq
FrameIdFor(mask_frame_id, seq) == IF mask_frame_id THEN 0 ELSE seq

\* Faulty variant of Tracks: the frame ID is not looked at.
Tracks_any_frame_id(needs_response, frame_id) == Truthy(needs_response)

\* if needs_response and frame_id:
Tracks(needs_response, frame_id) == Truthy(needs_response) /\ frame_id # 0

\* Faulty variant of NotConnected: the transport is not checked.
NotConnected_unchecked(uart) == FALSE

\* if self._uart is None:
NotConnected(uart) == uart = "None"

\* Faulty variant of TableAtSend: the entry is registered before the frame
\* is written.
TableAtSend_registered_first(before, after) == after

\* The table self._uart.send(data) finds: the call comes before the future
\* is created and registered, so it is the table as _command found it.
TableAtSend(before, after) == before

_command(name, payload, mask_frame_id) ==
    IF NotConnected(_uart)
    THEN \* raise APIException("API is not running")
         /\ last' = [Quiet("_command") EXCEPT
                        !.name = name, !.mask = mask_frame_id,
                        !.raised = "APIException"]
         /\ UNCHANGED <<_uart, _seq, _awaiting, futures, _reset, _running, _app, issued>>
         /\ UNCHANGED gw_vars
         /\ UNCHANGED conn_vars
    ELSE LET frame_id == FrameIdFor(mask_frame_id, _seq)
             frame    == _api_frame(name, frame_id, payload)
             track    == Tracks(frame.needs_response, frame_id)
             fut      == Len(futures) + 1
         IN  /\ futures' = IF track
                           THEN Append(futures, Future(frame_id, issued))
                           ELSE futures
             /\ _awaiting' = IF track
                             THEN (frame_id :> fut) @@ _awaiting
                             ELSE _awaiting
             /\ _seq' = NextSeq(_seq)
             /\ issued' = issued + 1
             /\ last' = [Quiet("_command") EXCEPT
                            !.name = name, !.mask = mask_frame_id,
                            !.frame_id = frame_id,
                            !.ret = IF track THEN fut ELSE 0,
                            !.sent = <<frame.data>>,
                            !.pending_at_send =
                                DOMAIN TableAtSend(_awaiting, _awaiting')]
             /\ UNCHANGED <<_uart, _reset, _running, _app>>
             /\ UNCHANGED gw_vars
             /\ UNCHANGED conn_vars

----------------------------------------------------------------------------
(* The local AT command table, api.py AT_COMMANDS: mnemonic -> value codec. *)
(* Three entries ("NI", "DA", "ND") hold the types module itself, which is  *)
(* no codec; "None" is the table's None (a command without a value).        *)

AT_uint8_t ==
    {"SE", "DE", "TO", "CR", "CH", "NH", "BH", "NT", "NO", "SD", "ZS", "NJ",
     "AR", "EO", "PL", "DB", "PP", "AP", "AO", "BD", "NB", "SB", "RO", "D6",
     "D7", "P3", "P4", "D0", "D1", "D2", "D3", "D4", "D5", "D8", "D9", "P0",
     "P1", "P2", "P5", "P6", "P7", "P8", "P9", "LT", "RP", "AI", "CC", "SM",
     "SO", "CB", "CE"}

AT_uint16_t ==
    {"MY", "MP", "CI", "NP", "OI", "SC", "NW", "II", "IR", "IC", "PR", "%V",
     "V+", "TP", "M0", "M1", "VR", "HV", "CT", "GT", "SN", "SP", "ST", "WH",
     "PO"}

AT_uint32_t == {"DH", "DL", "NC", "SH", "SL", "DD"}

AT_uint64_t == {"ID", "OP"}

AT_Bool == {"JV", "JN", "DJ", "EE", "PM", "NR"}

AT_Bytes == {"NK", "KY", "DN"}

AT_None == {"CN", "SI", "AC", "WR", "RE", "FR", "IS", "1S", "AS"}

AT_module == {"NI", "DA", "ND"}

ATMnemonics ==
    AT_uint8_t \cup AT_uint16_t \cup AT_uint32_t \cup AT_uint64_t \cup AT_Bool
        \cup AT_Bytes \cup AT_None \cup AT_module

AT_COMMANDS ==
    [m \in ATMnemonics |->
        CASE m \in AT_uint8_t  -> "uint8_t"
          [] m \in AT_uint16_t -> "uint16_t"
          [] m \in AT_uint32_t -> "uint32_t"
          [] m \in AT_uint64_t -> "uint64_t"
          [] m \in AT_Bool     -> "Bool"
          [] m \in AT_Bytes    -> "Bytes"
          [] m \in AT_None     -> "None"
          [] m \in AT_module   -> "module"]

\* Width in bytes of the fixed-width codecs.
SizeOf(codec) ==
    CASE codec = "uint8_t"  -> 1
      [] codec = "Bool"     -> 1
      [] codec = "uint16_t" -> 2
      [] codec = "uint32_t" -> 4
      [] codec = "uint64_t" -> 8
      [] OTHER              -> 0

\* The unsigned big-endian integer held by the bytes b.
RECURSIVE FromBytesBig(_)
FromBytesBig(b) ==
    IF b = <<>> THEN 0
    ELSE 256 * FromBytesBig(SubSeq(b, 1, Len(b) - 1)) + b[Len(b)]

\* response_type.deserialize(value) of a fixed-width integer codec: the
\* integer held by the first SizeOf(codec) bytes.
int_deserialize(codec, value) ==
    Value(IF codec = "Bool" THEN "bool" ELSE "int",
          FromBytesBig(SubSeq(value, 1, SizeOf(codec))), <<>>, "")

\* types.Bytes.deserialize(data): all of the data.
Bytes_deserialize(value) == Value("bytes", 0, value, "")

----------------------------------------------------------------------------
(* api.py ATCommandResult and the status enumerations of types.py *)

ATCommandResultNames ==
    (0 :> "OK") @@ (1 :> "ERROR") @@ (2 :> "INVALID_COMMAND")
        @@ (3 :> "INVALID_PARAMETER") @@ (4 :> "TX_FAILURE")

\* try: status = ATCommandResult(status)
\* except ValueError: status = ATCommandResult.ERROR
ATCommandResult(status) ==
    IF status \in DOMAIN ATCommandResultNames THEN status ELSE 1

\* The exception classes of exceptions.py and the builtins the code raises,
\* each with its base class.
ExceptionBase ==
    [ATCommandException |-> "Exception",
     ATCommandError |-> "ATCommandException",
     InvalidCommand |-> "ATCommandException",
     InvalidParameter |-> "ATCommandException",
     TransmissionFailure |-> "ATCommandException",
     RuntimeError |-> "Exception",
     DeliveryError |-> "Exception",
     Exception |-> "Exception"]

\* isinstance(an exception of class kind, cls)
IsInstance(kind, cls) ==
    \/ kind = cls
    \/ kind \in DOMAIN ExceptionBase /\ ExceptionBase[kind] = cls
    \/ kind \in DOMAIN ExceptionBase /\ cls = "Exception"

\* fut.set_exception(RuntimeError("AT Command response: {}".format(status.name)))
ATResponseError(status) ==
    Value("RuntimeError", status, <<>>,
          "AT Command response: " \o ATCommandResultNames[status])

\* types.TXStatus: the member values; any other byte becomes _UNDEFINED.
TXStatusNames ==
    (0 :> "SUCCESS") @@ (1 :> "NO_ACK_RECEIVED") @@ (2 :> "CCA_FAILURE")
        @@ (3 :> "INDIRECT_TX_TIMEOUT") @@ (21 :> "INVALID_DESTINATION_ENDPOINT")
        @@ (33 :> "NETWORK_ACK_FAILURE") @@ (34 :> "INDIRECT_TX_FAILURE")
        @@ (35 :> "SELF_ADDRESSED") @@ (36 :> "ADDRESS_NOT_FOUND")
        @@ (37 :> "ROUTE_NOT_FOUND") @@ (38 :> "BROADCAST_RELAY_FAILURE")
        @@ (43 :> "INVALID_BINDING_IDX") @@ (44 :> "NO_RESOURCES")
        @@ (45 :> "BROADCAST_APS_TX_ATTEMPT") @@ (46 :> "UNICAST_APS_TX_ATTEMPT")
        @@ (49 :> "INTERNAL_ERROR") @@ (50 :> "NO_RESOURCES_2")
        @@ (116 :> "PAYLOAD_TOO_LARGE")

\* UndefinedEnumMeta.__call__ for TXStatus, whose _UNDEFINED is 0x2C.
TXStatus(value) == IF value \in DOMAIN TXStatusNames THEN value ELSE 44

\* Faulty variant of TxDelivered: only SUCCESS counts as delivered.
TxDelivered_only_success(tx_status) == tx_status = 0

\* if tx_status in (BROADCAST_APS_TX_ATTEMPT, SELF_ADDRESSED, SUCCESS):
TxDelivered(tx_status) == tx_status \in {45, 35, 0}

----------------------------------------------------------------------------
(* asyncio.Future.set_result / set_exception *)

\* The futures after future i is given outcome st (with val).  Raises
\* InvalidStateError, changing nothing, when the future is already done.
SetOutcome(futs, i, st, val) ==
    IF done(futs[i])
    THEN [futures |-> futs, raised |-> "InvalidStateError"]
    ELSE [futures |-> [futs EXCEPT ![i].st = st, ![i].val = val], raised |-> ""]

set_result(futs, i, val) == SetOutcome(futs, i, "result", val)

set_exception(futs, i, val) == SetOutcome(futs, i, "exception", val)

----------------------------------------------------------------------------
(* The response descriptors, api.py COMMAND_RESPONSES, and the handlers    *)

\* self._commands_by_id = {v[0]: k for k, v in COMMAND_RESPONSES.items()}
_commands_by_id ==
    (136 :> "at_response") @@ (138 :> "modem_status") @@ (139 :> "tx_status")
        @@ (141 :> "route_information") @@ (144 :> "rx")
        @@ (145 :> "explicit_rx_indicator") @@ (146 :> "rx_io_data_long_addr")
        @@ (151 :> "remote_at_response") @@ (152 :> "extended_status")
        @@ (161 :> "route_record_indicator") @@ (163 :> "many_to_one_rri")
        @@ (149 :> "node_id_indicator")

\* The commands for which XBee defines a _handle_<command> method.
Handled ==
    {"at_response", "remote_at_response", "many_to_one_rri", "modem_status",
     "explicit_rx_indicator", "route_record_indicator", "tx_status"}

\* api.ModemStatus: the member values; any other byte becomes _UNDEFINED (0xFF).
ModemStatusValues == {0, 1, 2, 3, 6, 7, 13, 17, 62, 63, 67, 68, 69, 255}

ModemStatus(value) == IF value \in ModemStatusValues THEN value ELSE 255

\* What a handler did: the session's state after it, the exception that left
\* it ("" when it returned) and its calls to the application.
Outcome(aw, futs, rs, rn, raised, calls) ==
    [_awaiting |-> aw, futures |-> futs, _reset |-> rs, _running |-> rn,
     raised |-> raised, calls |-> calls]

\* A handler that returned or raised without touching the session.
Untouched(raised) == Outcome(_awaiting, futures, _reset, _running, raised, <<>>)

\* Faulty variant of Pop: the entry is read but not removed.
Pop_keeps_entry(aw, key) == aw

\* dict.pop(key) of a key that is present: the dict without it.
Pop(aw, key) == [k \in (DOMAIN aw) \ {key} |-> aw[k]]

\* The outcome of completing future fut after its entry was popped.
Completed(aw, r) == Outcome(aw, r.futures, _reset, _running, r.raised, <<>>)

_handle_at_response(frame_id, cmd, status, value) ==
    IF frame_id \notin DOMAIN _awaiting
    THEN Untouched("KeyError")
    ELSE LET fut == _awaiting[frame_id]
             aw  == Pop(_awaiting, frame_id)
             st  == ATCommandResult(status)
         IN  IF st # 0
             THEN Completed(aw, set_exception(futures, fut, ATResponseError(st)))
             ELSE IF cmd \notin DOMAIN AT_COMMANDS
             THEN \* AT_COMMANDS[cmd.decode("ascii")] raises
                  Outcome(aw, futures, _reset, _running, "KeyError", <<>>)
             ELSE LET response_type == AT_COMMANDS[cmd]
                  IN  IF response_type = "None" \/ Len(value) = 0
                      THEN Completed(aw, set_result(futures, fut, NoValue))
                      ELSE IF response_type = "module"
                      THEN \* the types module has no one-argument deserialize
                           Outcome(aw, futures, _reset, _running, "TypeError", <<>>)
                      ELSE IF response_type = "Bytes"
                      THEN Completed(aw, set_result(futures, fut, Bytes_deserialize(value)))
                      ELSE Completed(aw, set_result(futures, fut,
                                                    int_deserialize(response_type, value)))

_handle_remote_at_response(frame_id, ieee, nwk, cmd, status, value) ==
    _handle_at_response(frame_id, cmd, status, value)

\* Faulty variant of ExceptInvalidStateError: the error is not caught.
ExceptInvalidStateError_uncaught(raised) == raised

\* except asyncio.InvalidStateError as ex: LOGGER.debug(...)
ExceptInvalidStateError(raised) ==
    IF raised = "InvalidStateError" THEN "" ELSE raised

_handle_tx_status(frame_id, nwk, tries, tx_status, dsc_status) ==
    IF frame_id \notin DOMAIN _awaiting
    THEN \* except KeyError: log and return
         Untouched("")
    ELSE LET fut == _awaiting[frame_id]
             aw  == Pop(_awaiting, frame_id)
             r   == IF TxDelivered(tx_status)
                    THEN set_result(futures, fut,
                                    Value("TXStatus", tx_status, <<>>,
                                          TXStatusNames[tx_status]))
                    ELSE set_exception(futures, fut,
                                       Value("DeliveryError", tx_status, <<>>,
                                             TXStatusNames[tx_status]))
         IN  Outcome(aw, r.futures, _reset, _running,
                     ExceptInvalidStateError(r.raised), <<>>)

\* Faulty variant of _handle_modem_status: a reset sets the reset latch but
\* does not clear the started latch.
_handle_modem_status_reset_keeps_started(status) ==
    LET rn == CASE status = 6        -> TRUE
                [] status = 3        -> FALSE
                [] OTHER             -> _running
        rs == CASE status \in {0, 1} -> TRUE
                [] OTHER             -> _reset
    IN  Outcome(_awaiting, futures, rs, rn, "",
                IF _app # "None"
                THEN <<[fn |-> "handle_modem_status", args |-> <<status>>]>>
                ELSE <<>>)

_handle_modem_status(status) ==
    LET rn == CASE status = 6        -> TRUE      \* COORDINATOR_STARTED
                [] status \in {0, 1} -> FALSE     \* HARDWARE_RESET, WATCHDOG_TIMER_RESET
                [] status = 3        -> FALSE     \* DISASSOCIATED
                [] OTHER             -> _running
        rs == CASE status = 6        -> _reset
                [] status \in {0, 1} -> TRUE
                [] OTHER             -> _reset
    IN  Outcome(_awaiting, futures, rs, rn, "",
                IF _app # "None"
                THEN <<[fn |-> "handle_modem_status", args |-> <<status>>]>>
                ELSE <<>>)

\* Faulty variant of _handle_explicit_rx_indicator: the endpoints are passed
\* in the other order.
_handle_explicit_rx_indicator_swapped(ieee, nwk, src_ep, dst_ep, cluster, profile, rx_opts, data) ==
    IF _app = "None"
    THEN Untouched("AttributeError")
    ELSE Outcome(_awaiting, futures, _reset, _running, "",
                 <<[fn |-> "handle_rx",
                    args |-> <<ieee, nwk, dst_ep, src_ep, cluster, profile, rx_opts, data>>]>>)

_handle_explicit_rx_indicator(ieee, nwk, src_ep, dst_ep, cluster, profile, rx_opts, data) ==
    IF _app = "None"
    THEN \* None has no attribute handle_rx
         Untouched("AttributeError")
    ELSE Outcome(_awaiting, futures, _reset, _running, "",
                 <<[fn |-> "handle_rx",
                    args |-> <<ieee, nwk, src_ep, dst_ep, cluster, profile, rx_opts, data>>]>>)

\* _handle_many_to_one_rri and _handle_route_record_indicator only log.
_handle_many_to_one_rri(ieee, nwk, reserved) == Untouched("")

_handle_route_record_indicator(ieee, src, rx_opts, hops) == Untouched("")

\* The handler call of frame_received, getattr(self, "_handle_" + command)(*data),
\* on the deserialized fields f of the frame.
Dispatch(command, f) ==
    CASE command = "at_response" ->
            _handle_at_response(f.frame_id, f.cmd, f.status, f.value)
      [] command = "remote_at_response" ->
            _handle_remote_at_response(f.frame_id, f.ieee, f.nwk, f.cmd, f.status, f.value)
      [] command = "tx_status" ->
            _handle_tx_status(f.frame_id, f.nwk, f.tries, TXStatus(f.status), 0)
      [] command = "modem_status" ->
            _handle_modem_status(ModemStatus(f.status))
      [] command = "explicit_rx_indicator" ->
            _handle_explicit_rx_indicator(f.ieee, f.nwk, f.src_ep, f.dst_ep,
                                          f.cluster, f.profile, f.rx_opts, f.value)
      [] command = "many_to_one_rri" ->
            _handle_many_to_one_rri(f.ieee, f.nwk, 0)
      [] command = "route_record_indicator" ->
            _handle_route_record_indicator(f.ieee, f.nwk, f.rx_opts, <<>>)
      [] OTHER -> \* XBee.__getattr__: AttributeError("Unknown command ...")
            Untouched("AttributeError")

\* except AttributeError: LOGGER.error(..., binascii.hexlify(data)), where
\* data is by then the list of deserialized fields, which hexlify rejects.
AfterDispatch(raised) == IF raised = "AttributeError" THEN "TypeError" ELSE raised

\* frame_received(data), on a frame with type byte f.type and fields f.
frame_received(f) ==
    IF f.type \notin DOMAIN _commands_by_id
    THEN \* self._commands_by_id[data[0]] raises
         /\ last' = [Quiet("frame_received") EXCEPT
                        !.frame_id = f.frame_id, !.frame = f,
                        !.raised = "KeyError"]
         /\ UNCHANGED <<_uart, _seq, _awaiting, futures, _reset, _running, _app, issued>>
         /\ UNCHANGED gw_vars
         /\ UNCHANGED conn_vars
    ELSE LET command == _commands_by_id[f.type]
             out     == Dispatch(command, f)
         IN  /\ _awaiting' = out._awaiting
             /\ futures' = out.futures
             /\ _reset' = out._reset
             /\ _running' = out._running
             /\ last' = [Quiet("frame_received") EXCEPT
                            !.name = command, !.frame_id = f.frame_id,
                            !.frame = f,
                            !.raised = AfterDispatch(out.raised),
                            !.calls = out.calls]
             /\ UNCHANGED <<_uart, _seq, _app, issued>>
             /\ UNCHANGED gw_vars
             /\ UNCHANGED conn_vars

\* set_application(app)
set_application ==
    /\ _app' = "app"
    /\ last' = Quiet("set_application")
    /\ UNCHANGED <<_uart, _seq, _awaiting, futures, _reset, _running, issued>>
    /\ UNCHANGED gw_vars
    /\ UNCHANGED conn_vars

\* Faulty variant of wait_for_timeout: after the timeout the request is
\* written again.
wait_for_timeout_retries(i) ==
    /\ i \in DOMAIN futures
    /\ ~done(futures[i])
    /\ futures' = [futures EXCEPT ![i].st = "cancelled"]
    /\ issued' = issued + 1
    /\ last' = [Quiet("wait_for") EXCEPT
                   !.frame_id = futures[i].frame_id,
                   !.ret = i, !.raised = "TimeoutError", !.sent = <<<<8>>>>]
    /\ UNCHANGED <<_uart, _seq, _awaiting, _reset, _running, _app>>
    /\ UNCHANGED gw_vars
    /\ UNCHANGED conn_vars

\* asyncio.wait_for(future, timeout) in _at_partial, _remote_at_command and the
\* application's send: when the timeout expires before the future is done,
\* wait_for cancels the future and raises TimeoutError in the caller.  The
\* entry of the request stays in _awaiting.
wait_for_timeout(i) ==
    /\ i \in DOMAIN futures
    /\ ~done(futures[i])
    /\ futures' = [futures EXCEPT ![i].st = "cancelled"]
    /\ last' = [Quiet("wait_for") EXCEPT
                   !.frame_id = futures[i].frame_id,
                   !.ret = i, !.raised = "TimeoutError"]
    /\ UNCHANGED <<_uart, _seq, _awaiting, _reset, _running, _app, issued>>
    /\ UNCHANGED gw_vars
    /\ UNCHANGED conn_vars

----------------------------------------------------------------------------
(* Registration status (frame type 0xA4).  api.py under src/ has neither   *)
(* the descriptor nor the handler that tests/test_api.py calls; the        *)
(* handler follows the specification: pop the pending request, reject a    *)
(* non-zero status with an error naming it, resolve a zero status with it. *)

\* types.RegistrationStatus: the member values; any other byte becomes
\* _UNDEFINED (0xFF).
RegistrationStatusNames ==
    (0 :> "SUCCESS") @@ (1 :> "KEY_TOO_LONG")
        @@ (24 :> "TRANSIENT_KEY_TABLE_IS_FULL")
        @@ (177 :> "ADDRESS_NOT_FOUND_IN_THE_KEY_TABLE")
        @@ (178 :> "KEY_IS_INVALID_OR_RESERVED") @@ (179 :> "INVALID_ADDRESS")
        @@ (180 :> "KEY_TABLE_IS_FULL")
        @@ (189 :> "SECURITY_DATA_IS_INVALID_INSTALL_CODE_CRC_FAILS")
        @@ (255 :> "UNKNOWN_MODEM_STATUS")

RegistrationStatus(value) ==
    IF value \in DOMAIN RegistrationStatusNames THEN value ELSE 255

RegistrationError(status) ==
    Value("RuntimeError", status, <<>>,
          "Registration Status: " \o RegistrationStatusNames[status])

_handle_registration_status(frame_id, status) ==
    LET out == IF frame_id \notin DOMAIN _awaiting
               THEN Untouched("KeyError")
               ELSE LET fut == _awaiting[frame_id]
                        aw  == Pop(_awaiting, frame_id)
                    IN  IF status # 0
                        THEN Completed(aw, set_exception(futures, fut,
                                                         RegistrationError(status)))
                        ELSE Completed(aw, set_result(futures, fut,
                                 Value("RegistrationStatus", status, <<>>,
                                       RegistrationStatusNames[status])))
    IN  /\ _awaiting' = out._awaiting
        /\ futures' = out.futures
        /\ last' = [Quiet("_handle_registration_status") EXCEPT
                       !.name = "registration_status", !.frame_id = frame_id,
                       !.frame = [Frame(164) EXCEPT !.frame_id = frame_id,
                                                    !.status = status],
                       !.raised = out.raised]
        /\ UNCHANGED <<_uart, _seq, _reset, _running, _app, issued>>
        /\ UNCHANGED gw_vars
        /\ UNCHANGED conn_vars

----------------------------------------------------------------------------
(* The framer, uart.py Gateway.  Bytes are the integers 0..255, byte       *)
(* strings are sequences of them.                                          *)

START == 126

ESCAPE == 125

XON == 17

XOFF == 19

\* RESERVED = START + ESCAPE + XON + XOFF
RESERVED == {START, ESCAPE, XON, XOFF}

\* b ^ 0x20 of a byte b
Xor20(b) == IF (b \div 32) % 2 = 1 THEN b - 32 ELSE b + 32

\* Faulty variant of EscapedByte: the byte follows the marker as it is.
EscapedByte_as_is(b) == b

\* _escape: ret.append(b ^ 0x20) after the escape marker
EscapedByte(b) == Xor20(b)

\* Faulty variant of UnescapedByte: the byte after the marker is taken as is.
UnescapedByte_as_is(b) == b

\* _get_unescaped: b = data[idx] ^ 0x020
UnescapedByte(b) == Xor20(b)

RECURSIVE _escape(_)
_escape(data) ==
    IF data = <<>> THEN <<>>
    ELSE LET b == Head(data)
         IN  (IF b \in RESERVED THEN <<ESCAPE, EscapedByte(b)>> ELSE <<b>>)
                 \o _escape(Tail(data))

\* The bytes of data from the 0-based index idx on: data[idx:]
From(data, idx) == SubSeq(data, idx + 1, Len(data))

\* What _get_unescaped returns: (None, None), or the n bytes and the rest.
NoneNone == [ok |-> FALSE, ret |-> <<>>, rest |-> <<>>]

\* The while loop of _get_unescaped, at 0-based index idx with ret collected.
RECURSIVE GetUnescapedLoop(_, _, _, _)
GetUnescapedLoop(data, n, idx, ret) ==
    IF Len(ret) < n /\ idx < Len(data)
    THEN LET b == data[idx + 1]
         IN  IF b = ESCAPE
             THEN IF idx + 1 >= Len(data)
                  THEN NoneNone
                  ELSE GetUnescapedLoop(data, n, idx + 2,
                                        Append(ret, UnescapedByte(data[idx + 2])))
             ELSE GetUnescapedLoop(data, n, idx + 1, Append(ret, b))
    ELSE IF Len(ret) >= n
         THEN [ok |-> TRUE, ret |-> ret, rest |-> From(data, idx)]
         ELSE NoneNone

_get_unescaped(data, n) == GetUnescapedLoop(data, n, 0, <<>>)

RECURSIVE Sum(_)
Sum(data) == IF data = <<>> THEN 0 ELSE Head(data) + Sum(Tail(data))

\* Faulty variant of _checksum: the sum itself, not its complement.
_checksum_plain_sum(data) == Sum(data) % 256

_checksum(data) == 255 - (Sum(data) % 256)

\* len(data).to_bytes(2, "big")
LengthBytes(n) == <<n \div 256, n % 256>>

\* The frame send(data) writes.
FrameOf(data) ==
    <<START>> \o _escape(LengthBytes(Len(data)) \o data \o <<_checksum(data)>>)

\* self._buffer.find(self.START): the 0-based index of the first START, or -1
RECURSIVE FindFrom(_, _, _)
FindFrom(buffer, byte, idx) ==
    IF idx >= Len(buffer) THEN -1
    ELSE IF buffer[idx + 1] = byte THEN idx
    ELSE FindFrom(buffer, byte, idx + 1)

\* What _extract_frame returns and the buffer it leaves: found is FALSE when
\* it returns None.
Extracted(found, frame, buffer) ==
    [found |-> found, frame |-> frame, buffer |-> buffer]

\* Faulty variant of ChecksumMatches: the checksum is not compared.
ChecksumMatches_unchecked(frame, checksum) == TRUE

\* if self._checksum(frame) != checksum[0]
ChecksumMatches(frame, checksum) == _checksum(frame) = checksum[1]

_extract_frame(buffer) ==
    LET first_start == FindFrom(buffer, START, 0)
    IN  IF first_start < 0 THEN Extracted(FALSE, <<>>, buffer)
        ELSE
        LET len == _get_unescaped(From(buffer, first_start + 1), 2)
        IN  IF ~len.ok THEN Extracted(FALSE, <<>>, buffer)
            ELSE
            LET frame_len == len.ret[1] * 256 + len.ret[2]
                frame     == _get_unescaped(len.rest, frame_len)
            IN  IF ~frame.ok THEN Extracted(FALSE, <<>>, buffer)
                ELSE
                LET checksum == _get_unescaped(frame.rest, 1)
                IN  IF ~checksum.ok THEN Extracted(FALSE, <<>>, buffer)
                    ELSE IF ~ChecksumMatches(frame.ret, checksum.ret)
                    THEN Extracted(FALSE, <<>>, checksum.rest)
                    ELSE Extracted(TRUE, frame.ret, checksum.rest)

\* The while loop of data_received: frames are extracted and passed to
\* frame_received until the buffer is empty or _extract_frame returns None.
RECURSIVE ExtractLoop(_, _)
ExtractLoop(buffer, calls) ==
    IF buffer = <<>> THEN [buffer |-> buffer, calls |-> calls]
    ELSE LET r == _extract_frame(buffer)
         IN  IF ~r.found THEN [buffer |-> r.buffer, calls |-> calls]
             ELSE ExtractLoop(r.buffer,
                              Append(calls, [fn |-> "frame_received", data |-> r.frame]))

\* Faulty variant of Buffered: the chunk replaces the buffer.
Buffered_replaced(buffer, data) == data

\* self._buffer += data
Buffered(buffer, data) == buffer \o data

\* data.decode("ascii", "ignore"): the bytes that are no ASCII are dropped.
decode_ascii_ignore(data) == SelectSeq(data, LAMBDA b : b < 128)

\* sub in data, for strings
Contains(data, sub) ==
    \E i \in 1 .. (Len(data) - Len(sub) + 1) :
        SubSeq(data, i, i + Len(sub) - 1) = sub

\* The ASCII codes of "OK" and "ERROR".
OK == <<79, 75>>

ERROR == <<69, 82, 82, 79, 82>>

\* What a command-mode future holds: True, False or the text received.
Bool(b) == Value("bool", IF b THEN 1 ELSE 0, <<>>, "")

Str(text) == Value("str", 0, text, "")

\* Python truthiness of what command_mode_at_cmd returns: None, False and
\* the empty string are false.
IsTrue(value) ==
    CASE value.kind = "bool" -> value.num # 0
      [] value.kind = "str" -> value.bytes # <<>>
      [] OTHER -> FALSE

\* A new asyncio.Future(), for command mode.
CmdModeFuture == Some([st |-> "pending", val |-> NoValue])

\* Faulty variant of handle_command_mode_rsp: a future that is done is
\* given the new response.
handle_command_mode_rsp_completes_again(fut, data) ==
    IF fut = None THEN fut
    ELSE IF Contains(data, OK) THEN Some([st |-> "result", val |-> Bool(TRUE)])
    ELSE IF Contains(data, ERROR) THEN Some([st |-> "result", val |-> Bool(FALSE)])
    ELSE Some([st |-> "result", val |-> Str(data)])

\* handle_command_mode_rsp(data): the future after the call.
handle_command_mode_rsp(fut, data) ==
    IF fut = None \/ done(fut[1]) THEN fut
    ELSE IF Contains(data, OK) THEN Some([st |-> "result", val |-> Bool(TRUE)])
    ELSE IF Contains(data, ERROR) THEN Some([st |-> "result", val |-> Bool(FALSE)])
    ELSE Some([st |-> "result", val |-> Str(data)])

\* Faulty variant of IsLine: the command-mode flag is not looked at.
IsLine_any_mode(in_command_mode, buffer) ==
    buffer # <<>> /\ buffer[Len(buffer)] = 13

\* if self._in_command_mode and self._buffer[-1:] == b"\r":
IsLine(in_command_mode, buffer) ==
    in_command_mode /\ buffer # <<>> /\ buffer[Len(buffer)] = 13

\* data_received(data).  Gateway.frame_received hands each frame to the
\* session's frame_received, whose effect on the session is the action
\* frame_received above; here the call is recorded.  command_mode_rsp hands
\* the text to the session's handle_command_mode_rsp.
data_received(data) ==
    LET r == ExtractLoop(Buffered(_buffer, data), <<>>)
    IN  /\ IF IsLine(_in_command_mode, r.buffer)
           THEN /\ _buffer' = <<>>
                /\ dispatched' = dispatched \o r.calls \o
                       <<[fn |-> "command_mode_rsp",
                          data |-> SubSeq(r.buffer, 1, Len(r.buffer) - 1)]>>
                /\ _cmd_mode_future' =
                       handle_command_mode_rsp(
                           _cmd_mode_future,
                           decode_ascii_ignore(SubSeq(r.buffer, 1, Len(r.buffer) - 1)))
           ELSE /\ _buffer' = r.buffer
                /\ dispatched' = dispatched \o r.calls
                /\ UNCHANGED _cmd_mode_future
        /\ UNCHANGED <<_in_command_mode, written, baudrate>>
        /\ UNCHANGED xbee_vars
        /\ UNCHANGED conn_vars

\* The serial port delivers the next k bytes in one data_received call.
deliver(k) ==
    /\ k \in 1 .. Len(wire)
    /\ data_received(SubSeq(wire, 1, k))
    /\ wire' = From(wire, k)
    /\ io' = [io EXCEPT !.op = "data_received",
                        !.calls = IF @ < 2 THEN @ + 1 ELSE 2,
                        !.cut = @ \/ wire[k] = ESCAPE]

\* Gateway.command_mode_send(data), called without a session's future as
\* the tests call it.
command_mode_send(data) ==
    /\ _in_command_mode' = TRUE
    /\ written' = Append(written, data)
    /\ io' = [io EXCEPT !.op = "command_mode_send"]
    /\ UNCHANGED <<_buffer, dispatched, wire, baudrate, _cmd_mode_future>>
    /\ UNCHANGED xbee_vars
    /\ UNCHANGED conn_vars

\* Gateway.reset_command_mode()
reset_command_mode ==
    /\ _in_command_mode' = FALSE
    /\ io' = [io EXCEPT !.op = "reset_command_mode"]
    /\ UNCHANGED <<_buffer, written, dispatched, wire, baudrate, _cmd_mode_future>>
    /\ UNCHANGED xbee_vars
    /\ UNCHANGED conn_vars

\* send(data)
send(data) ==
    /\ written' = Append(written, FrameOf(data))
    /\ io' = [io EXCEPT !.op = "send"]
    /\ UNCHANGED <<_buffer, _in_command_mode, dispatched, wire,
                   baudrate, _cmd_mode_future>>
    /\ UNCHANGED xbee_vars
    /\ UNCHANGED conn_vars

\* A call of _escape on the argument to come.
call_escape ==
    /\ io.op = ""
    /\ io' = [io EXCEPT !.op = "_escape", !.escaped = _escape(io.data)]
    /\ UNCHANGED <<_buffer, _in_command_mode, written, dispatched, wire,
                   baudrate, _cmd_mode_future>>
    /\ UNCHANGED xbee_vars
    /\ UNCHANGED conn_vars

\* A call of _get_unescaped on the escaped bytes, followed by the extra
\* bytes, for as many bytes as were escaped.
call_get_unescaped ==
    /\ io.op = "_escape"
    /\ LET r == _get_unescaped(io.escaped \o io.extra, Len(io.data))
       IN  io' = [io EXCEPT !.op = "_get_unescaped",
                            !.ret = IF r.ok THEN Some(r.ret) ELSE None,
                            !.rest = IF r.ok THEN Some(r.rest) ELSE None]
    /\ UNCHANGED <<_buffer, _in_command_mode, written, dispatched, wire,
                   baudrate, _cmd_mode_future>>
    /\ UNCHANGED xbee_vars
    /\ UNCHANGED conn_vars

\* A call of _extract_frame, as the tests make it: io.data keeps the buffer
\* it found, io.ret the frame it returned, or None.
call_extract_frame ==
    /\ LET r == _extract_frame(_buffer)
       IN  /\ _buffer' = r.buffer
           /\ io' = [io EXCEPT !.op = "_extract_frame",
                               !.data = _buffer,
                               !.ret = IF r.found THEN Some(r.frame) ELSE None,
                               !.calls = IF @ < 2 THEN @ + 1 ELSE 2]
    /\ UNCHANGED <<_in_command_mode, written, dispatched, wire,
                   baudrate, _cmd_mode_future>>
    /\ UNCHANGED xbee_vars
    /\ UNCHANGED conn_vars

----------------------------------------------------------------------------
(* Loss of the serial connection: Gateway.connection_lost and              *)
(* XBee.connection_lost.                                                   *)

\* Faulty variant of Cancelled: the earlier task is left running.
Cancelled_not(tasks) == tasks

\* if self._conn_lost_task and not self._conn_lost_task.done():
\*     self._conn_lost_task.cancel()
Cancelled(tasks) ==
    IF tasks # <<>> /\ tasks[Len(tasks)].st = "running"
    THEN [tasks EXCEPT ![Len(tasks)].st = "cancelled"]
    ELSE tasks

\* asyncio.create_task(self._connection_lost()): the new task is at its
\* first reconnect(), with attempt = 1; waits keeps the seconds it slept.
ReconnectTask == [st |-> "running", pc |-> "reconnect", attempt |-> 1, waits |-> <<>>]

\* The session's side of XBee.connection_lost(exc): the transport is
\* forgotten, a reconnection task that is still running is cancelled and a
\* new one is created; no call is made to the application.  last.name
\* keeps exc.
ConnectionLost(exc) ==
    /\ _uart' = "None"
    /\ _conn_lost_task' = Append(Cancelled(_conn_lost_task), ReconnectTask)
    /\ last' = [Quiet("connection_lost") EXCEPT !.name = exc, !.calls = <<>>]
    /\ UNCHANGED <<_seq, _awaiting, futures, _reset, _running, _app, issued>>

\* The reconnection task that can still run, the one created last: 0 when
\* it has ended or none was created.
Reconnecting ==
    IF _conn_lost_task # <<>> /\ _conn_lost_task[Len(_conn_lost_task)].st = "running"
    THEN Len(_conn_lost_task) ELSE 0

\* min(attempt, 5)
Min(a, b) == IF a < b THEN a ELSE b

\* Faulty variant of Wait: the exponent is not capped.
Wait_uncapped(attempt) == 2 ^ attempt

\* wait = 2 ** min(attempt, 5)
Wait(attempt) == 2 ^ Min(attempt, 5)

\* _reconnect_till_done: reconnect() returns, connect() having found no
\* transport and stored the new one; the loop breaks and the task ends.
_reconnect_done ==
    /\ Reconnecting # 0
    /\ _conn_lost_task[Reconnecting].pc = "reconnect"
    /\ Connect("reconnect")
    /\ _conn_lost_task' = [_conn_lost_task EXCEPT ![Reconnecting].st = "done",
                                                  ![Reconnecting].pc = ""]

\* _reconnect_till_done: connect() finds a transport, stored by a connect()
\* of the application meanwhile; its assert raises AssertionError, which
\* the loop does not catch, and the task ends with it.
_reconnect_assert_fails ==
    /\ Reconnecting # 0
    /\ _conn_lost_task[Reconnecting].pc = "reconnect"
    /\ _uart # "None"
    /\ _conn_lost_task' = [_conn_lost_task EXCEPT ![Reconnecting].st = "AssertionError",
                                                  ![Reconnecting].pc = ""]
    /\ UNCHANGED <<xbee_vars, gw_vars, _connected_future>>

\* _reconnect_till_done: reconnect() ends with TimeoutError (after 10
\* seconds) or OSError; the wait is computed, attempt incremented and the
\* task sleeps.
_reconnect_fails(exc) ==
    /\ Reconnecting # 0
    /\ _conn_lost_task[Reconnecting].pc = "reconnect"
    /\ _uart = "None"
    /\ _conn_lost_task' =
          [_conn_lost_task EXCEPT
              ![Reconnecting].pc = "sleep",
              ![Reconnecting].attempt = @ + 1,
              ![Reconnecting].waits = Append(@, Wait(_conn_lost_task[Reconnecting].attempt))]
    /\ UNCHANGED <<xbee_vars, gw_vars, _connected_future>>

\* _reconnect_till_done: the sleep is over, the loop calls reconnect().
_reconnect_retries ==
    /\ Reconnecting # 0
    /\ _conn_lost_task[Reconnecting].pc = "sleep"
    /\ _conn_lost_task' = [_conn_lost_task EXCEPT ![Reconnecting].pc = "reconnect"]
    /\ UNCHANGED <<xbee_vars, gw_vars, _connected_future>>

\* XBee.connection_lost(exc)
connection_lost(exc) ==
    /\ ConnectionLost(exc)
    /\ UNCHANGED gw_vars
    /\ UNCHANGED _connected_future

\* Faulty variant of ConnectedFutureAfter: the future is rejected only.
ConnectedFutureAfter_rejects_only(fut, exc) ==
    IF fut = None \/ done(fut[1]) \/ exc = "None" THEN fut ELSE Rejected(exc)

\* The connected future after Gateway.connection_lost(exc): a future that
\* is not done is resolved with True when exc is None and rejected with exc
\* otherwise.
ConnectedFutureAfter(fut, exc) ==
    IF fut = None \/ done(fut[1]) THEN fut
    ELSE IF exc = "None" THEN Resolved(Value("bool", 1, <<>>, ""))
    ELSE Rejected(exc)

\* Gateway.connection_lost(exc): with an exception the session's
\* connection_lost is called.
Gateway_connection_lost(exc) ==
    /\ _connected_future' = ConnectedFutureAfter(_connected_future, exc)
    /\ io' = [io EXCEPT !.op = "connection_lost", !.extra = <<exc>>]
    /\ IF exc = "None"
       THEN /\ UNCHANGED xbee_vars
            /\ UNCHANGED <<_conn_lost_task, dispatched>>
       ELSE /\ ConnectionLost(exc)
            /\ dispatched' = Append(dispatched, [fn |-> "connection_lost", exc |-> exc])
    /\ UNCHANGED <<_buffer, _in_command_mode, written, wire, baudrate, _cmd_mode_future>>

----------------------------------------------------------------------------
(* Command mode and the switch to API mode: command_mode_at_cmd,           *)
(* enter_at_command_mode, api_mode_at_commands and init_api_mode, api.py.  *)

\* "\r"
CR == 13

\* The ASCII codes of "+++", "ATAP2", "ATWR", "ATCN" and "ATBD<digit>".
PLUSES == <<43, 43, 43>>

ATAP2 == <<65, 84, 65, 80, 50>>

ATWR == <<65, 84, 87, 82>>

ATCN == <<65, 84, 67, 78>>

ATBD(digit) == <<65, 84, 66, 68, 48 + digit>>

BAUDRATE_TO_BD ==
    (1200 :> ATBD(0)) @@ (2400 :> ATBD(1)) @@ (4800 :> ATBD(2))
        @@ (9600 :> ATBD(3)) @@ (19200 :> ATBD(4)) @@ (38400 :> ATBD(5))
        @@ (57600 :> ATBD(6)) @@ (115200 :> ATBD(7)) @@ (230400 :> ATBD(8))

\* sorted(keys)
RECURSIVE sorted(_)
sorted(keys) ==
    IF keys = {} THEN <<>>
    ELSE LET least == CHOOSE k \in keys : \A other \in keys : k <= other
         IN  <<least>> \o sorted(keys \ {least})

\* Faulty variant of Candidates: the loop leaves out the default rate.
Candidates_without_default == sorted(DOMAIN BAUDRATE_TO_BD \ {DefaultBaudrate})

\* The candidate rates of init_api_mode's loop.
Candidates == sorted(DOMAIN BAUDRATE_TO_BD)

\* command_mode_at_cmd(command), up to its await: a new future replaces
\* _cmd_mode_future, and command_mode_send sets the Gateway's flag and
\* writes the command.
command_mode_at_cmd(command) ==
    /\ _cmd_mode_future' = CmdModeFuture
    /\ _in_command_mode' = TRUE
    /\ written' = Append(written, command)
    /\ UNCHANGED <<_buffer, dispatched, wire, io, baudrate>>
    /\ UNCHANGED xbee_vars
    /\ UNCHANGED conn_vars

\* What await asyncio.wait_for(self._cmd_mode_future, timeout=2) gives to
\* command_mode_at_cmd, which returns it: the future's result, or None
\* after the timeout.
Response(timeout) == IF timeout THEN NoValue ELSE _cmd_mode_future[1].val

\* The await of command_mode_at_cmd ends: the future has its result, or
\* the timeout passes while it is pending and wait_for cancels it.
Resumes(timeout) ==
    /\ _cmd_mode_future # None
    /\ IF timeout
       THEN /\ _cmd_mode_future[1].st = "pending"
            /\ _cmd_mode_future' = Some([_cmd_mode_future[1] EXCEPT !.st = "cancelled"])
       ELSE /\ _cmd_mode_future[1].st = "result"
            /\ UNCHANGED _cmd_mode_future

\* The device answers in command mode: the text and "\r" arrive in one
\* data_received call.
command_mode_answer(text) ==
    /\ _cmd_mode_future # None /\ _cmd_mode_future[1].st = "pending"
    /\ data_received(text \o <<CR>>)
    /\ UNCHANGED <<wire, io>>

\* Faulty variant of Cmds: the settings are written before API mode is set.
Cmds_persist_first(rate) ==
    (IF rate \in DOMAIN BAUDRATE_TO_BD THEN <<BAUDRATE_TO_BD[rate]>> ELSE <<>>)
        \o <<ATWR, ATAP2, ATCN>>

\* A caller's command_mode_at_cmd(command) reaches its await.
call_command_mode_at_cmd(command) ==
    /\ task.pc = ""
    /\ command_mode_at_cmd(command)
    /\ task' = [task EXCEPT !.pc = "command_mode_at_cmd"]

\* command_mode_at_cmd returns to its caller what the await gave, None
\* after the timeout; io.ret keeps the value.
command_mode_at_cmd_returns(timeout) ==
    /\ task.pc = "command_mode_at_cmd"
    /\ Resumes(timeout)
    /\ task' = [task EXCEPT !.pc = ""]
    /\ io' = [io EXCEPT !.op = "command_mode_at_cmd",
                        !.ret = Some(Response(timeout))]
    /\ UNCHANGED <<_buffer, _in_command_mode, written, dispatched, wire, baudrate>>
    /\ UNCHANGED xbee_vars
    /\ UNCHANGED conn_vars

\* The commands of api_mode_at_commands(baudrate).
Cmds(rate) ==
    (IF rate \in DOMAIN BAUDRATE_TO_BD THEN <<BAUDRATE_TO_BD[rate]>> ELSE <<>>)
        \o <<ATAP2, ATWR, ATCN>>

\* Faulty variant of RestoredBaudrate: the port keeps the rate it was
\* switched to.
RestoredBaudrate_kept(sweep, current_baudrate, now) == now

\* The baud rate of the port when init_api_mode returns after
\* api_mode_at_commands: the loop sets it back to current_baudrate, the
\* first attempt never changed it.
RestoredBaudrate(sweep, current_baudrate, now) ==
    IF sweep > 0 THEN current_baudrate ELSE now

\* init_api_mode is called on a connected session, by the application or
\* by _probe after its AT command timed out, and reaches the await of its
\* first enter_at_command_mode.
init_api_mode ==
    /\ _uart # "None"
    /\ task.pc = ""
    /\ task.probe_pc \in {"", "timed out"}
    /\ task' = [task EXCEPT !.pc = "enter", !.current_baudrate = baudrate,
                            !.inits = @ + 1,
                            !.probe_pc = IF @ = "" THEN "" ELSE "init_api_mode"]
    /\ UNCHANGED <<xbee_vars, gw_vars, conn_vars>>

\* enter_at_command_mode(): after the quiet time, "+++" is sent.
enter_at_command_mode ==
    /\ task.pc = "enter"
    /\ command_mode_at_cmd(PLUSES)
    /\ task' = [task EXCEPT !.pc = "entering", !.attempts = @ + 1,
                            !.rates = Append(@, baudrate)]

\* init_api_mode after enter_at_command_mode returned: with a true value
\* api_mode_at_commands(current_baudrate) starts; otherwise the loop sets
\* the port to the next candidate rate for another attempt, or, the
\* candidates exhausted, init_api_mode returns False.
init_api_mode_entered(timeout) ==
    /\ task.pc = "entering"
    /\ Resumes(timeout)
    /\ IF IsTrue(Response(timeout))
       THEN /\ task' = [task EXCEPT !.pc = "configure",
                                    !.cmds = Cmds(task.current_baudrate),
                                    !.configures = @ + 1,
                                    !.target = task.current_baudrate]
            /\ UNCHANGED baudrate
       ELSE IF task.sweep < Len(Candidates)
       THEN /\ task' = [task EXCEPT !.pc = "enter", !.sweep = @ + 1]
            /\ baudrate' = Candidates[task.sweep + 1]
       ELSE /\ task' = [task EXCEPT !.pc = "done", !.ret = "False"]
            /\ UNCHANGED baudrate
    /\ UNCHANGED <<_buffer, _in_command_mode, written, dispatched, wire, io>>
    /\ UNCHANGED xbee_vars
    /\ UNCHANGED conn_vars

\* api_mode_at_commands sends its next command, "\r" appended.
api_mode_at_commands_send ==
    /\ task.pc = "configure"
    /\ command_mode_at_cmd(Head(task.cmds) \o <<CR>>)
    /\ task' = [task EXCEPT !.pc = "configuring"]

\* api_mode_at_commands after command_mode_at_cmd returned: with a true
\* value the next command follows, and after the last one
\* reset_command_mode is called and True returned; otherwise it returns
\* None.  init_api_mode returns what api_mode_at_commands did, the loop
\* after setting the port's rate.
api_mode_at_commands_answered(timeout) ==
    /\ task.pc = "configuring"
    /\ Resumes(timeout)
    /\ IF IsTrue(Response(timeout)) /\ Len(task.cmds) > 1
       THEN /\ task' = [task EXCEPT !.pc = "configure", !.cmds = Tail(@)]
            /\ UNCHANGED <<_in_command_mode, baudrate>>
       ELSE /\ task' = [task EXCEPT
                            !.pc = "done",
                            !.cmds = IF IsTrue(Response(timeout)) THEN <<>> ELSE @,
                            !.ret = IF IsTrue(Response(timeout)) THEN "True" ELSE "None"]
            /\ _in_command_mode' = (_in_command_mode /\ ~IsTrue(Response(timeout)))
            /\ baudrate' = RestoredBaudrate(task.sweep, task.current_baudrate, baudrate)
    /\ UNCHANGED <<_buffer, written, dispatched, wire, io>>
    /\ UNCHANGED xbee_vars
    /\ UNCHANGED conn_vars

----------------------------------------------------------------------------
(* XBee.probe and XBee._probe *)

\* The serialized arguments of _at_command("AP", 2): the mnemonic and 2.
AP2 == <<65, 80, 2>>

\* The exceptions probe catches to return False.
ProbeCaught == {"TimeoutError", "SerialException", "APIException"}

\* The number of transport closes of a call of close(): Gateway.close() is
\* called when there is a Gateway.
TransportCloses(uart) == IF uart # "None" THEN 1 ELSE 0

\* probe leaves its try statement: with an exception it catches it returns
\* False, any other one leaves probe, and without one it returns True.
ProbeEnds(t, exception) ==
    [t EXCEPT !.probe_pc = "done",
              !.result = IF exception = "" THEN "True"
                         ELSE IF exception \in ProbeCaught THEN "False" ELSE "",
              !.raised = IF exception \in ProbeCaught THEN "" ELSE exception,
              !.caught = IF exception \in ProbeCaught THEN exception ELSE "",
              !.closes = @ + TransportCloses(_uart)]

\* probe(device_config): a new session is built and _probe starts inside
\* wait_for, at the await of connect.
probe ==
    /\ _uart = "None" /\ task.pc = "" /\ task.probe_pc = ""
    /\ task' = [task EXCEPT !.probe_pc = "connect"]
    /\ UNCHANGED <<xbee_vars, gw_vars, conn_vars>>

\* _probe: connect() returns.
_probe_connect ==
    /\ task.probe_pc = "connect"
    /\ connect
    /\ task' = [task EXCEPT !.probe_pc = "_at_command"]

\* _probe: connect() raises serial.SerialException, outside the try
\* statement of _probe; probe catches it and calls close(), which finds no
\* Gateway.
_probe_connect_fails ==
    /\ task.probe_pc = "connect"
    /\ close
    /\ task' = ProbeEnds(task, "SerialException")

\* _probe: _at_command("AP", 2) writes its frame and awaits the future.
_probe_at_command ==
    /\ task.probe_pc = "_at_command"
    /\ _command("at", AP2, FALSE)
    /\ task' = [task EXCEPT !.probe_pc = "await", !.fut = Len(futures) + 1]

\* AT_COMMAND_TIMEOUT passes: wait_for cancels the future and
\* _at_command raises TimeoutError, which _probe catches.
_probe_command_timeout ==
    /\ task.probe_pc = "await"
    /\ wait_for_timeout(task.fut)
    /\ task' = [task EXCEPT !.probe_pc = "timed out"]

\* The future of the AT command is done: _at_command returns its result or
\* raises its exception, the finally clause of _probe calls close(), and so
\* does the one of probe (which finds no Gateway).
_probe_command_done ==
    /\ task.probe_pc = "await"
    /\ futures[task.fut].st \in {"result", "exception"}
    /\ close
    /\ task' = ProbeEnds(task, IF futures[task.fut].st = "result" THEN ""
                                ELSE futures[task.fut].val.kind)

\* init_api_mode returned to _probe, which raises APIException unless the
\* value is true; then the finally clauses as above.
_probe_init_api_mode_done ==
    /\ task.probe_pc = "init_api_mode" /\ task.pc = "done"
    /\ close
    /\ task' = ProbeEnds(task, IF task.ret = "True" THEN "" ELSE "APIException")

\* PROBE_TIMEOUT passes while _probe awaits: wait_for cancels _probe, and
\* with it the future it awaits.
probe_timeout ==
    /\ \/ task.probe_pc \in {"connect", "await"}
       \/ task.probe_pc = "init_api_mode" /\ task.pc \in {"enter", "entering", "configuring"}
    /\ futures' = IF task.probe_pc = "await" /\ ~done(futures[task.fut])
                  THEN [futures EXCEPT ![task.fut].st = "cancelled"]
                  ELSE futures
    /\ _cmd_mode_future' =
          IF task.pc \in {"entering", "configuring"} /\ ~done(_cmd_mode_future[1])
          THEN Some([_cmd_mode_future[1] EXCEPT !.st = "cancelled"])
          ELSE _cmd_mode_future
    /\ task' = [task EXCEPT !.probe_pc = "cancelled",
                            !.pc = IF @ = "" THEN "" ELSE "cancelled"]
    /\ UNCHANGED <<_uart, _seq, _awaiting, _reset, _running, _app, issued, last>>
    /\ UNCHANGED <<_buffer, _in_command_mode, written, dispatched, wire, io, baudrate>>
    /\ UNCHANGED conn_vars

\* The cancelled _probe ends, through its finally clause when it was past
\* connect; wait_for raises TimeoutError, which probe catches; the finally
\* clause of probe calls close().
probe_cancelled ==
    /\ task.probe_pc = "cancelled"
    /\ close
    /\ task' = ProbeEnds(task, "TimeoutError")

----------------------------------------------------------------------------
(* Inputs *)

\* The serialized arguments of a command.
Payloads == {<<>>}

\* Frame IDs of received frames: the allocated ones and one never allocated.
FrameIds == 1 .. (MaxRequests + 1)

\* The (mnemonic, status, value) of received AT responses.  With status OK,
\* one mnemonic per kind of table entry: a one-byte and a two-byte integer, a
\* byte string, a command without a value, an entry that is no codec, and
\* "ZZ", which the table does not hold; values are empty or as long as the
\* codec needs.  With the statuses ERROR, INVALID_COMMAND and the unmapped
\* 0xEE, one mnemonic and value.
ATReplies ==
    {[cmd |-> "AI", status |-> 0, value |-> <<0>>],
     [cmd |-> "AI", status |-> 0, value |-> <<>>],
     [cmd |-> "MY", status |-> 0, value |-> <<1, 2>>],
     [cmd |-> "NK", status |-> 0, value |-> <<1, 2>>],
     [cmd |-> "AC", status |-> 0, value |-> <<35>>],
     [cmd |-> "NI", status |-> 0, value |-> <<78>>],
     [cmd |-> "ZZ", status |-> 0, value |-> <<>>],
     [cmd |-> "AI", status |-> 1, value |-> <<35>>],
     [cmd |-> "AI", status |-> 2, value |-> <<35>>],
     [cmd |-> "AI", status |-> 238, value |-> <<35>>]}

\* Status bytes of TX-status frames: the three delivered ones, two failures
\* and a byte that is no member of TXStatus.
TxStatuses == {0, 35, 45, 36, 1, 153}

\* Status bytes of modem-status frames.
ModemStatuses == {0, 1, 2, 3, 6, 200}

\* The replies that also arrive as remote AT responses.
RemoteATReplies == {r \in ATReplies : r.cmd = "AI" /\ r.value # <<>> /\ r.status < 2}

\* Local (0x88) and remote (0x97) AT responses.
ATResponseFrames(type, replies) ==
    {[Frame(type) EXCEPT !.frame_id = id, !.cmd = r.cmd, !.status = r.status,
                         !.value = r.value] :
        id \in FrameIds, r \in replies}

TxStatusFrames(statuses) ==
    {[Frame(139) EXCEPT !.frame_id = id, !.status = st] :
        id \in FrameIds, st \in statuses}

ModemStatusFrames == {[Frame(138) EXCEPT !.status = st] : st \in ModemStatuses}

\* Explicit receive, route record, many-to-one, a frame without a handler
\* (rx) and a frame of an unknown type.
OtherFrames == {Frame(type) : type \in {145, 161, 163, 144, 0}}

\* The session is connected and closed, and commands of every descriptor
\* are issued, with and without mask_frame_id.
Next ==
    \/ connect /\ UNCHANGED task
    \/ close /\ UNCHANGED task
    \/ \E name \in CommandNames, payload \in Payloads, mask \in BOOLEAN :
          issued < MaxCommands /\ _command(name, payload, mask) /\ UNCHANGED task

Spec == Init /\ [][Next]_vars

\* Callers issue local, queued and remote AT commands on a connected session; their
\* responses arrive in any order, for any frame ID, or not before the timeout.
NextAT ==
    \/ connect /\ UNCHANGED task
    \/ \E name \in {"at", "queued_at", "remote_at"} :
          issued < MaxRequests /\ _command(name, <<>>, FALSE) /\ UNCHANGED task
    \/ \E f \in ATResponseFrames(136, ATReplies) \cup ATResponseFrames(151, RemoteATReplies) :
          frame_received(f) /\ UNCHANGED task
    \/ \E i \in DOMAIN futures : wait_for_timeout(i) /\ UNCHANGED task

SpecAT == Init /\ [][NextAT]_vars

\* Callers send tx_explicit requests on a connected session; their TX-status
\* reports arrive in any order, for any frame ID, more than once, or not
\* before the timeout.
NextTx ==
    \/ connect /\ UNCHANGED task
    \/ issued < MaxRequests /\ _command("tx_explicit", <<>>, FALSE) /\ UNCHANGED task
    \/ \E f \in TxStatusFrames(TxStatuses) : frame_received(f) /\ UNCHANGED task
    \/ \E i \in DOMAIN futures : wait_for_timeout(i) /\ UNCHANGED task

SpecTx == Init /\ [][NextTx]_vars

\* More than one lap of the sequence counter: tracked requests are issued
\* only at the first frame IDs of a lap, every other command is
\* fire-and-forget (masked, or of a descriptor without a reply type), and no
\* reply arrives.
WrapCommands == {"at", "create_source_route"}

NextWrap ==
    \/ connect /\ UNCHANGED task
    \/ \E name \in WrapCommands, mask \in BOOLEAN :
          /\ issued < MaxIssued
          /\ Tracks(COMMAND_REQUESTS[name].reply, FrameIdFor(mask, _seq))
                => _seq <= MaxTrackedId
          /\ _command(name, <<>>, mask)
          /\ UNCHANGED task

SpecWrap == Init /\ [][NextWrap]_vars

\* Explicit-receive indicators with different values in every field, and
\* with different payloads.
RxFrames ==
    {[Frame(145) EXCEPT !.ieee = 1, !.nwk = 2, !.src_ep = 3, !.dst_ep = 4,
                        !.cluster = 5, !.profile = 6, !.rx_opts = 7,
                        !.value = data] :
        data \in {<<>>, <<97, 98>>}}

\* Modem statuses and frames that concern no request arrive on a session
\* with or without an application, while requests are pending.
NextRx ==
    \/ connect /\ UNCHANGED task
    \/ set_application /\ UNCHANGED task
    \/ issued < MaxRequests /\ _command("at", <<>>, FALSE) /\ UNCHANGED task
    \/ \E f \in ModemStatusFrames \cup OtherFrames \cup RxFrames :
          frame_received(f) /\ UNCHANGED task

SpecRx == Init /\ [][NextRx]_vars

\* The reserved bytes, the bytes they are escaped to (0x5E, 0x5D, 0x31,
\* 0x33) and an ordinary byte.
ByteSample == RESERVED \cup {94, 93, 49, 51, 35}

\* All byte strings over a set of bytes up to a length.
SeqsUpTo(bytes, n) == UNION {[1 .. k -> bytes] : k \in 0 .. n}

\* The byte strings that are escaped: every single byte, and the strings
\* over ByteSample up to MaxLen + 1 bytes (runs of reserved bytes among them).
EscapeInputs == {<<b>> : b \in 0 .. 255} \cup SeqsUpTo(ByteSample, MaxLen + 1)

\* The bytes that follow the escaped data.
ExtraInputs == {<<>>, <<170, 187, 204, 255>>, <<ESCAPE>>, <<START, 94>>}

\* The payloads of frames: the strings over ByteSample up to MaxLen bytes,
\* payloads whose checksum is a reserved byte (0x7E, 0x7D, 0x11, 0x13) or
\* one bit away from one (0x7F, 0x7C), the payload of the tests, and a
\* payload of 17 bytes, whose length byte is reserved.
FramePayloads ==
    SeqsUpTo(ByteSample, MaxLen)
        \cup {<<129>>, <<130>>, <<238>>, <<236>>, <<128>>, <<131>>, <<35, 17>>}
        \cup {[i \in 1 .. 17 |-> 35]}

\* byte ^ 1: the byte with its lowest bit flipped
FlipBit(byte) == IF byte % 2 = 0 THEN byte + 1 ELSE byte - 1

\* A frame as it arrives with one bit of its last byte, the checksum,
\* flipped on the wire.
Corrupted(frame) == [frame EXCEPT ![Len(frame)] = FlipBit(@)]

\* The device answers with the bytes that were written, alone or after the
\* same frame with a corrupt checksum; io.extra keeps the corrupt bytes.
port_echoes ==
    /\ io.op = "send"
    /\ \E corrupt \in {<<>>, Corrupted(written[1])} :
          /\ wire' = corrupt \o written[1]
          /\ io' = [io EXCEPT !.op = "port", !.extra = corrupt]
    /\ UNCHANGED <<_buffer, _in_command_mode, written, dispatched,
                   baudrate, _cmd_mode_future>>
    /\ UNCHANGED xbee_vars
    /\ UNCHANGED conn_vars

\* A payload is sent, and the port delivers the answer in chunks of any
\* length.
InitFramer ==
    /\ XBee__init__ /\ Gateway__init__ /\ wire = <<>>
    /\ baudrate = DefaultBaudrate /\ _cmd_mode_future = None /\ task = NoTask
    /\ _connected_future = None /\ _conn_lost_task = <<>>
    /\ \E data \in FramePayloads : io = Idle(data, <<>>)

NextFramer ==
    \/ io.op = "" /\ send(io.data) /\ UNCHANGED task
    \/ port_echoes /\ UNCHANGED task
    \/ \E k \in 1 .. Len(wire) : deliver(k) /\ UNCHANGED task

SpecFramer == InitFramer /\ [][NextFramer]_vars

\* _escape is called on a byte string and _get_unescaped on its result.
InitEscape ==
    /\ XBee__init__ /\ Gateway__init__ /\ wire = <<>>
    /\ baudrate = DefaultBaudrate /\ _cmd_mode_future = None /\ task = NoTask
    /\ _connected_future = None /\ _conn_lost_task = <<>>
    /\ \E data \in EscapeInputs, extra \in ExtraInputs : io = Idle(data, extra)

NextEscape ==
    \/ call_escape /\ UNCHANGED task
    \/ call_get_unescaped /\ UNCHANGED task

SpecEscape == InitEscape /\ [][NextEscape]_vars

\* Status bytes of registration-status frames: success, two failures and a
\* byte that is no member of RegistrationStatus.
RegistrationStatuses == {0, 1, 180, 7}

\* Requests are pending on a connected session and registration statuses
\* arrive for any frame ID.
NextReg ==
    \/ connect /\ UNCHANGED task
    \/ \E name \in {"at", "tx_explicit"} :
          issued < MaxRequests /\ _command(name, <<>>, FALSE) /\ UNCHANGED task
    \/ \E id \in FrameIds, st \in RegistrationStatuses :
          _handle_registration_status(id, RegistrationStatus(st)) /\ UNCHANGED task

SpecReg == Init /\ [][NextReg]_vars

\* The texts the device sends in command mode: "OK", "ERROR", another
\* text, nothing, and "OK" with a byte that is no ASCII in it.
LineTexts == {OK, ERROR, <<72, 105>>, <<>>, <<79, 200, 75>>}

\* What the port delivers: one text line, two of them, a line before and
\* after a binary frame, a frame that holds the byte 0x0D, and a frame with
\* 0x0D after it.
LineWires ==
    {text \o <<CR>> : text \in LineTexts}
        \cup {OK \o <<CR>> \o OK \o <<CR>>, OK \o <<CR>> \o ERROR \o <<CR>>,
              FrameOf(<<35>>) \o OK \o <<CR>>, OK \o <<CR>> \o FrameOf(<<35>>),
              FrameOf(<<CR, 35>>), FrameOf(<<35>>) \o <<CR>>}

\* A connected Gateway receives text lines and frames in chunks of any
\* length, while command mode is entered by command_mode_at_cmd or by
\* command_mode_send and left by reset_command_mode.
InitLine ==
    /\ XBee__init__ /\ Gateway__init__
    /\ baudrate = DefaultBaudrate /\ _cmd_mode_future = None /\ task = NoTask
    /\ _connected_future = None /\ _conn_lost_task = <<>>
    /\ io = Idle(<<>>, <<>>)
    /\ wire \in LineWires

NextLine ==
    \/ Len(written) < MaxLines /\ call_command_mode_at_cmd(PLUSES)
    \/ \E timeout \in BOOLEAN : command_mode_at_cmd_returns(timeout)
    \/ Len(written) < MaxLines /\ command_mode_send(<<>>) /\ UNCHANGED task
    \/ _in_command_mode /\ reset_command_mode /\ UNCHANGED task
    \/ \E k \in 1 .. Len(wire) : deliver(k) /\ UNCHANGED task

SpecLine == InitLine /\ [][NextLine]_vars

\* The payloads of the frames _extract_frame is called on: empty, plain,
\* with a reserved byte, with a checksum that is escaped (0x7E, 0x7D) and
\* with a checksum one bit away from the escape marker (0x7C).
ExtractPayloads == {<<>>, <<35>>, <<35, 17>>, <<129>>, <<130>>, <<131>>}

\* Every prefix of a byte string, the empty one and the whole among them.
Prefixes(bytes) == {SubSeq(bytes, 1, k) : k \in 0 .. Len(bytes)}

\* The buffers _extract_frame is called on: bytes without a start marker,
\* then a frame, whole, cut anywhere or with a corrupt checksum, then the
\* bytes that follow it.
ExtractBuffers ==
    {before \o frame \o after :
        before \in {<<>>, <<35>>, <<ESCAPE, XON>>},
        frame \in UNION {Prefixes(FrameOf(p)) \cup {Corrupted(FrameOf(p))} :
                             p \in ExtractPayloads},
        after \in {<<>>, <<START>>, <<35, START, 0>>, <<ESCAPE>>}}

\* A Gateway whose buffer holds bytes received earlier.
InitExtract ==
    /\ XBee__init__ /\ wire = <<>> /\ written = <<>> /\ dispatched = <<>>
    /\ _in_command_mode = FALSE
    /\ baudrate = DefaultBaudrate /\ _cmd_mode_future = None /\ task = NoTask
    /\ _connected_future = None /\ _conn_lost_task = <<>>
    /\ io = Idle(<<>>, <<>>)
    /\ _buffer \in ExtractBuffers

NextExtract ==
    \/ call_extract_frame /\ UNCHANGED task

SpecExtract == InitExtract /\ [][NextExtract]_vars

\* What the device answers to "+++": "OK", "ERROR" or another text; and to
\* a command of api_mode_at_commands: "OK", "ERROR", another text or
\* nothing but the "\r".
AnswerTexts(pc) ==
    IF pc = "entering" THEN {OK, ERROR, <<72, 105>>}
    ELSE {OK, ERROR, <<>>, <<72, 105>>}

\* The rates the port is opened with: the default, two other candidates of
\* the loop and a rate that is no key of BAUDRATE_TO_BD.
PortBaudrates == {DefaultBaudrate, 1200, 230400, 460800}

\* init_api_mode runs on a connected session, at any of the port's rates;
\* the device answers each command or lets it time out.
InitMode ==
    /\ XBee__init__ /\ Gateway__init__ /\ wire = <<>> /\ io = Idle(<<>>, <<>>)
    /\ baudrate \in PortBaudrates /\ _cmd_mode_future = None /\ task = NoTask
    /\ _connected_future = None /\ _conn_lost_task = <<>>

NextMode ==
    \/ connect /\ UNCHANGED task
    \/ init_api_mode
    \/ enter_at_command_mode
    \/ \E timeout \in BOOLEAN : init_api_mode_entered(timeout)
    \/ api_mode_at_commands_send
    \/ \E timeout \in BOOLEAN : api_mode_at_commands_answered(timeout)
    \/ \E text \in AnswerTexts(task.pc) : command_mode_answer(text) /\ UNCHANGED task

SpecMode == InitMode /\ [][NextMode]_vars

\* The event loop runs a coroutine that can go on, and the timeout of a
\* wait_for passes.
SpecModeFair == SpecMode /\ WF_vars(NextMode)

\* The responses to the AT command of probe: status OK and status ERROR, for
\* the frame ID of the command and for another one.
ProbeReplies ==
    {[Frame(136) EXCEPT !.frame_id = id, !.cmd = "AP", !.status = st] :
        id \in 1 .. 2, st \in 0 .. 1}

\* probe runs on a port that opens or fails to open, with a device that
\* answers the AT command or not, and the commands of command mode or not.
NextProbe ==
    \/ probe
    \/ _probe_connect
    \/ _probe_connect_fails
    \/ _probe_at_command
    \/ \E f \in ProbeReplies : frame_received(f) /\ UNCHANGED task
    \/ _probe_command_timeout
    \/ _probe_command_done
    \/ init_api_mode
    \/ enter_at_command_mode
    \/ \E timeout \in BOOLEAN : init_api_mode_entered(timeout)
    \/ api_mode_at_commands_send
    \/ \E timeout \in BOOLEAN : api_mode_at_commands_answered(timeout)
    \/ \E text \in AnswerTexts(task.pc) : command_mode_answer(text) /\ UNCHANGED task
    \/ _probe_init_api_mode_done
    \/ probe_timeout
    \/ probe_cancelled

SpecProbe == Init /\ [][NextProbe]_vars

\* The Gateway was built without a connected future, or its future is
\* pending (the port is being opened) or resolved (the port was opened).
ConnectedFutures == {None, CmdModeFuture, Resolved(Bool(TRUE))}

\* The errors a transport is lost with; "None": it was closed.
LossErrors == {"None", "SerialException"}

InitConn ==
    /\ XBee__init__ /\ Gateway__init__ /\ wire = <<>> /\ io = Idle(<<>>, <<>>)
    /\ baudrate = DefaultBaudrate /\ _cmd_mode_future = None /\ task = NoTask
    /\ _connected_future \in ConnectedFutures /\ _conn_lost_task = <<>>

\* The transport calls connection_lost of its Gateway once, at any time;
\* the session, with or without an application and with requests pending,
\* is told of lost connections by this and by later Gateways.
NextConn ==
    \/ connect /\ UNCHANGED task
    \/ set_application /\ UNCHANGED task
    \/ issued < MaxRequests /\ _command("at", <<>>, FALSE) /\ UNCHANGED task
    \/ \E exc \in LossErrors :
          /\ io.op # "connection_lost"
          /\ Len(_conn_lost_task) < MaxLosses
          /\ Gateway_connection_lost(exc)
          /\ UNCHANGED task
    \/ \E exc \in LossErrors \ {"None"} :
          /\ Len(_conn_lost_task) < MaxLosses
          /\ connection_lost(exc)
          /\ UNCHANGED task

SpecConn == InitConn /\ [][NextConn]_vars

\* The modem statuses that move a latch: hardware reset and coordinator
\* started.
LatchFrames == {[Frame(138) EXCEPT !.status = st] : st \in {0, 6}}

\* A session is connected and closed by its application; its transport is
\* lost at any time, and each reconnection task runs, its attempts failing
\* or succeeding, until it ends or is cancelled.
NextReconn ==
    \/ connect /\ UNCHANGED task
    \/ close /\ UNCHANGED task
    \/ \E exc \in LossErrors \ {"None"} :
          /\ _uart # "None"
          /\ Len(_conn_lost_task) < MaxLosses
          /\ connection_lost(exc)
          /\ UNCHANGED task
    \/ _reconnect_done /\ UNCHANGED task
    \/ _reconnect_assert_fails /\ UNCHANGED task
    \/ \E exc \in {"TimeoutError", "OSError"} :
          /\ Reconnecting # 0
          /\ _conn_lost_task[Reconnecting].attempt < MaxAttempts
          /\ _reconnect_fails(exc)
          /\ UNCHANGED task
    \/ _reconnect_retries /\ UNCHANGED task

SpecReconn == Init /\ [][NextReconn]_vars

\* A session issues requests and receives modem statuses while its
\* transport is lost, re-opened by the reconnection task and closed.
NextLoss ==
    \/ connect /\ UNCHANGED task
    \/ close /\ UNCHANGED task
    \/ issued < MaxRequests /\ _command("at", <<>>, FALSE) /\ UNCHANGED task
    \/ \E f \in LatchFrames : _uart # "None" /\ frame_received(f) /\ UNCHANGED task
    \/ \E exc \in LossErrors \ {"None"} :
          /\ _uart # "None"
          /\ Len(_conn_lost_task) < MaxLosses
          /\ connection_lost(exc)
          /\ UNCHANGED task
    \/ _reconnect_done /\ UNCHANGED task
    \/ _reconnect_assert_fails /\ UNCHANGED task
    \/ \E exc \in {"TimeoutError", "OSError"} :
          /\ Reconnecting # 0
          /\ _conn_lost_task[Reconnecting].attempt <= MaxRetries
          /\ _reconnect_fails(exc)
          /\ UNCHANGED task
    \/ _reconnect_retries /\ UNCHANGED task

SpecLoss == Init /\ [][NextLoss]_vars

----------------------------------------------------------------------------
(* The frame-ID sequence counter *)

\* The last operation was a _command call that wrote its frame.
Commanded == last.op = "_command" /\ last.raised = ""

\* C1: whatever commands are issued (tracked, masked, fire-and-forget), the
\* sequence counter stays in 1..255 and advances cyclically with every
\* command, an unmasked request never carries frame ID 0, and the request
\* after the one with frame ID 255 carries frame ID 1.
C1_SeqCycles1To255 ==
    /\ _seq \in 1 .. 255
    /\ _seq = (issued % 255) + 1
    /\ (Commanded /\ ~last.mask) =>
          /\ last.frame_id \in 1 .. 255
          /\ last.frame_id = ((issued - 1) % 255) + 1
          /\ COMMAND_REQUESTS[last.name].schema # <<>> => last.sent[1][2] = last.frame_id
          /\ _seq = IF last.frame_id = 255 THEN 1 ELSE last.frame_id + 1

\* C1 witness: the 256th command, an unmasked tracked request, carries frame
\* ID 1 again.
C1_Witness_WrappedTo1 ==
    /\ Commanded /\ ~last.mask /\ last.ret # 0
    /\ issued = 256 /\ last.frame_id = 1 /\ _seq = 2

\* C4, as claimed: the requests that are still pending have pairwise
\* different frame IDs and each of them still holds its entry of the table.
C4_Claimed_PendingNeverReplaced ==
    \A i \in DOMAIN futures :
        futures[i].st = "pending" =>
            /\ futures[i].frame_id \in DOMAIN _awaiting
            /\ _awaiting[futures[i].frame_id] = i
            /\ \A j \in DOMAIN futures :
                  (j # i /\ futures[j].st = "pending")
                      => futures[j].frame_id # futures[i].frame_id

\* C4, amended: the table's entry for a frame ID is a request of that frame
\* ID; two requests get the same frame ID only when the later one was issued
\* a multiple of 255 commands after the earlier one; and the entry of a
\* request is not held by another request while fewer than 255 commands were
\* issued after it.
C4_DistinctWithin255Commands ==
    /\ \A f \in DOMAIN _awaiting :
          _awaiting[f] \in DOMAIN futures /\ futures[_awaiting[f]].frame_id = f
    /\ \A i, j \in DOMAIN futures :
          (i < j /\ futures[i].frame_id = futures[j].frame_id) =>
              /\ futures[j].born - futures[i].born >= 255
              /\ (futures[j].born - futures[i].born) % 255 = 0
    /\ \A i \in DOMAIN futures :
          (issued - futures[i].born <= 255 /\ futures[i].frame_id \in DOMAIN _awaiting)
              => _awaiting[futures[i].frame_id] = i

\* C4 witness: two pending requests 255 commands apart share a frame ID and
\* the table holds the later one, with another request pending beside them.
C4_Witness_ReplacedAfter255 ==
    \E i, j, k \in DOMAIN futures :
        /\ i < j /\ futures[i].frame_id = futures[j].frame_id
        /\ futures[j].born = futures[i].born + 255
        /\ futures[i].st = "pending" /\ futures[j].st = "pending"
        /\ _awaiting[futures[j].frame_id] = j
        /\ futures[k].frame_id # futures[i].frame_id /\ _awaiting[futures[k].frame_id] = k

----------------------------------------------------------------------------
(* _command *)

\* C2: a _command call that goes through writes exactly one frame; it
\* returns a new pending future and registers it under the frame ID exactly
\* when the descriptor declares a reply type and the frame ID is not 0
\* (mask_frame_id not given); otherwise it returns nothing and leaves the
\* table and the futures as they were.
C2_FutureIffReplyTypeAndFrameId ==
    [][ (last'.op = "_command" /\ last'.raised = "") =>
          LET c  == COMMAND_REQUESTS[last'.name]
              id == IF last'.mask THEN 0 ELSE _seq
          IN  /\ Len(last'.sent) = 1
              /\ last'.sent[1][1] = c.id
              /\ last'.frame_id = id
              /\ IF c.reply # None /\ id # 0
                 THEN /\ last'.ret = Len(futures) + 1
                      /\ futures' = Append(futures, Future(id, issued))
                      /\ DOMAIN _awaiting' = DOMAIN _awaiting \cup {id}
                      /\ _awaiting'[id] = last'.ret
                      /\ \A f \in DOMAIN _awaiting \ {id} : _awaiting'[f] = _awaiting[f]
                 ELSE /\ last'.ret = 0
                      /\ _awaiting' = _awaiting
                      /\ futures' = futures ]_vars

\* C2 witness: a masked "at" command returned nothing and wrote its frame
\* while the entry of an earlier tracked request is in the table.
C2_Witness_MaskedAfterTracked ==
    /\ Commanded /\ last.name = "at" /\ last.mask /\ last.ret = 0
    /\ Len(last.sent) = 1
    /\ DOMAIN _awaiting = {1} /\ Len(futures) = 1

\* C3: without a transport, _command of any command raises the
\* not-connected APIException, writes nothing, returns nothing and leaves
\* the sequence counter, the table and the futures as they were.
C3_NotConnectedNoEffect ==
    [][ (last'.op = "_command" /\ _uart = "None") =>
          /\ last'.raised = "APIException"
          /\ last'.sent = <<>>
          /\ last'.ret = 0
          /\ UNCHANGED <<_uart, _seq, _awaiting, futures, issued>> ]_vars

\* C3 witness: a command was refused after the session, with a request
\* pending, was closed.
C3_Witness_RefusedAfterClose ==
    /\ last.op = "_command" /\ last.raised = "APIException"
    /\ _uart = "None" /\ issued > 0 /\ _awaiting # <<>>

----------------------------------------------------------------------------
(* Replies *)

\* The step received a frame that command's handler was called for.
Received(command) == last'.op = "frame_received" /\ last'.name = command

\* The step received an AT response, local or remote.
ReceivedAT == Received("at_response") \/ Received("remote_at_response")

\* The frame ID of the frame received in the step has an entry in the table.
Registered == last'.frame_id \in DOMAIN _awaiting

\* The future registered under the frame ID of the frame received.
Awaited == _awaiting[last'.frame_id]

\* The step removed the entry of the frame ID received and no other entry.
EntryRemoved ==
    /\ DOMAIN _awaiting' = DOMAIN _awaiting \ {last'.frame_id}
    /\ \A k \in DOMAIN _awaiting' : _awaiting'[k] = _awaiting[k]

\* The step touched no future but the one registered under the frame ID.
OthersUntouched ==
    /\ Len(futures') = Len(futures)
    /\ \A j \in DOMAIN futures : j # Awaited => futures'[j] = futures[j]

\* C5, as claimed: a reply for the frame ID of a pending request completes
\* the future registered under that frame ID, with the outcome the reply
\* carries, and touches no other future.
C5_Claimed_ReplyCompletesItsFuture ==
    [][ (last'.op = "frame_received" /\ last'.frame.cmd \in DOMAIN AT_COMMANDS
            /\ Registered /\ ~done(futures[Awaited])) =>
          /\ futures'[Awaited].st = IF last'.frame.status = 0 THEN "result" ELSE "exception"
          /\ OthersUntouched
          /\ EntryRemoved ]_vars

\* C6, as claimed: a response whose frame ID has no entry in the table is
\* received without an exception and changes neither the table, the
\* futures, the sequence counter nor the latches.
C6_Claimed_UnknownFrameIdIgnored ==
    [][ (last'.op = "frame_received" /\ ~Registered) =>
          /\ last'.raised = ""
          /\ UNCHANGED <<_awaiting, futures, _seq, _reset, _running>> ]_vars

\* C7: a TX status whose frame ID has no entry changes nothing and raises
\* nothing; a TX status whose registered future is already done removes the
\* entry, leaves every future as it was and raises nothing.
C7_TxStatusUnexpectedOrDuplicate ==
    [][ Received("tx_status") =>
          /\ ~Registered =>
                /\ last'.raised = ""
                /\ UNCHANGED <<_awaiting, futures, _seq, _reset, _running>>
          /\ (Registered /\ done(futures[Awaited])) =>
                /\ last'.raised = ""
                /\ EntryRemoved
                /\ futures' = futures ]_vars

\* C7 witness: a TX status arrived for a request whose future was already
\* done; its entry is gone, the other request's entry is still there.
C7_Witness_StatusAfterDone ==
    /\ last.op = "frame_received" /\ last.name = "tx_status" /\ last.raised = ""
    /\ last.frame_id \notin DOMAIN _awaiting
    /\ \E i \in DOMAIN futures :
          futures[i].frame_id = last.frame_id /\ futures[i].st = "cancelled"
    /\ \E k \in DOMAIN _awaiting : futures[_awaiting[k]].st = "pending"

\* C8: a TX status for a pending request removes its entry and gives its
\* future exactly one outcome: the status as result when it is SUCCESS,
\* SELF_ADDRESSED or BROADCAST_APS_TX_ATTEMPT, a DeliveryError carrying the
\* status otherwise, a status byte outside the enumeration counting as its
\* undefined member.
C8_TxStatusResolvesOrRejects ==
    [][ (Received("tx_status") /\ Registered /\ ~done(futures[Awaited])) =>
          LET s == last'.frame.status
              f == futures'[Awaited]
          IN  /\ last'.raised = ""
              /\ EntryRemoved
              /\ OthersUntouched
              /\ IF s \in {0, 35, 45}
                 THEN f.st = "result" /\ f.val.kind = "TXStatus" /\ f.val.num = s
                 ELSE /\ f.st = "exception" /\ f.val.kind = "DeliveryError"
                      /\ f.val.num = IF s \in DOMAIN TXStatusNames THEN s ELSE 44
                      /\ f.val.text = TXStatusNames[f.val.num] ]_vars

\* C8 witness: a status byte outside the enumeration rejected one request
\* with the undefined member while the other request resolved with
\* SELF_ADDRESSED.
C8_Witness_RejectedUndefined ==
    /\ last.op = "frame_received" /\ last.name = "tx_status"
    /\ last.frame.status = 153
    /\ \E i, j \in DOMAIN futures :
          /\ futures[i].frame_id = last.frame_id
          /\ futures[i].st = "exception" /\ futures[i].val.num = 44
          /\ futures[j].st = "result" /\ futures[j].val.num = 35
    /\ _awaiting = <<>>

\* C9, as claimed: an AT response with a non-zero status rejects the
\* pending future with ATCommandError for status 1, InvalidCommand for
\* status 2 and an ATCommandException for an unmapped status.
C9_Claimed_ErrorKindByStatus ==
    [][ (ReceivedAT /\ last'.frame.status # 0 /\ Registered /\ ~done(futures[Awaited])) =>
          LET s == last'.frame.status
              f == futures'[Awaited]
          IN  /\ f.st = "exception"
              /\ s = 1 => IsInstance(f.val.kind, "ATCommandError")
              /\ s = 2 => IsInstance(f.val.kind, "InvalidCommand")
              /\ IsInstance(f.val.kind, "ATCommandException") ]_vars

\* C10, as claimed: an AT response with status 0 for a pending request
\* resolves the future, with no result when the mnemonic's response type is
\* "no value" or the value is empty and otherwise with the value
\* deserialized per the mnemonic's type.
C10_Claimed_ResolvesPerType ==
    [][ (ReceivedAT /\ last'.frame.status = 0 /\ last'.frame.cmd \in DOMAIN AT_COMMANDS
            /\ Registered /\ ~done(futures[Awaited])) =>
          LET cmd   == last'.frame.cmd
              value == last'.frame.value
              f     == futures'[Awaited]
          IN  /\ f.st = "result"
              /\ IF cmd \in AT_None \/ value = <<>>
                 THEN f.val = NoValue
                 ELSE /\ f.val # NoValue
                      /\ cmd = "AI" => f.val.num = value[1]
                      /\ cmd = "MY" => f.val.num = value[1] * 256 + value[2]
                      /\ cmd = "NK" => f.val.bytes = value ]_vars

----------------------------------------------------------------------------
(* Registration status *)

----------------------------------------------------------------------------
(* Modem status and frames without a handler *)

\* C12: a modem-status frame moves the latches by its status byte alone:
\* COORDINATOR_STARTED (6) sets the started latch and keeps the reset latch;
\* HARDWARE_RESET (0) and WATCHDOG_TIMER_RESET (1) set the reset latch and
\* clear the started latch; DISASSOCIATED (3) clears the started latch and
\* keeps the reset latch; every other status keeps both.
C12_ModemStatusLatches ==
    [][ Received("modem_status") =>
          LET s == last'.frame.status
          IN  /\ last'.raised = ""
              /\ s = 6 => _running' /\ _reset' = _reset
              /\ s \in {0, 1} => _reset' /\ ~_running'
              /\ s = 3 => ~_running' /\ _reset' = _reset
              /\ s \notin {0, 1, 3, 6} => _running' = _running /\ _reset' = _reset ]_vars

\* C12 witness: a WATCHDOG_TIMER_RESET status left the reset latch set and
\* the started latch clear, and the application was told.
C12_Witness_ResetClearsStarted ==
    /\ last.op = "frame_received" /\ last.name = "modem_status"
    /\ last.frame.status = 1 /\ _reset /\ ~_running
    /\ last.calls # <<>>

\* C13, as claimed: a frame whose type byte is not in the response table, or
\* whose command has no handler method, is dropped without an exception and
\* changes neither the table, the futures, the sequence counter nor the
\* latches.
C13_Claimed_UnhandledFrameDropped ==
    [][ (last'.op = "frame_received"
            /\ (last'.frame.type \in DOMAIN _commands_by_id
                    => _commands_by_id[last'.frame.type] \notin Handled)) =>
          /\ last'.raised = ""
          /\ UNCHANGED <<_awaiting, futures, _seq, _reset, _running>> ]_vars

----------------------------------------------------------------------------
(* The framer *)

\* C14: unescaping the escaped form of a byte string b for len(b) bytes
\* returns b, and as rest exactly the bytes that followed the escaped form
\* (none when nothing followed).
C14_EscapeUnescapeRoundTrip ==
    io.op = "_get_unescaped" =>
        /\ io.ret = Some(io.data)
        /\ io.rest = Some(io.extra)

\* C14 witness: a run of three reserved bytes was escaped to six bytes and
\* unescaped again, with four bytes following it.
C14_Witness_ReservedRun ==
    /\ io.op = "_get_unescaped"
    /\ Len(io.data) = 3 /\ \A i \in 1 .. 3 : io.data[i] \in RESERVED
    /\ io.data[1] # io.data[2]
    /\ Len(io.escaped) = 6
    /\ io.ret = Some(io.data)
    /\ io.rest = Some(<<170, 187, 204, 255>>)

\* The call of frame_received with a frame.
FrameCall(frame) == [fn |-> "frame_received", data |-> frame]

\* The port has got its bytes: the frame written, alone (Clean) or after a
\* frame with a corrupt checksum.
Loaded == io.op \in {"port", "data_received"}

Clean == io.extra = <<>>

\* The bytes the port delivers in all, and how many of them were delivered.
Stream == io.extra \o written[1]

Delivered == Len(Stream) - Len(wire)

\* C15: send(p) writes START and then the escaped form of the two-byte
\* big-endian length of p, p and the checksum 0xFF - (sum(p) mod 256); a
\* framer with an empty buffer that is fed exactly these bytes passes
\* exactly the frame p to frame_received and is left with an empty buffer.
C15_SendThenReceiveYieldsPayload ==
    [][ /\ io'.op = "send" =>
              LET p == io.data
              IN  /\ written' = << <<126>> \o _escape(<<Len(p) \div 256, Len(p) % 256>>
                                                       \o p \o <<255 - (Sum(p) % 256)>>) >>
                  /\ p = <<35, 17>> => written'[1] = <<126, 0, 2, 35, 125, 49, 203>>
        /\ (io.op = "port" /\ Clean /\ wire' = <<>>) =>
              /\ _buffer = <<>>
              /\ dispatched' = <<FrameCall(io.data)>>
              /\ _buffer' = <<>> ]_vars

\* C15 witness: the payload 23 11 was written as 7E 00 02 23 7D 31 CB and
\* came back as one frame from one data_received call.
C15_Witness_TestFrame ==
    /\ io.op = "data_received" /\ io.calls = 1 /\ Clean
    /\ written = << <<126, 0, 2, 35, 125, 49, 203>> >>
    /\ dispatched = <<FrameCall(<<35, 17>>)>>
    /\ _buffer = <<>> /\ wire = <<>>

\* C16: however the bytes of one valid frame are cut into data_received
\* calls, nothing is passed to frame_received before the last byte has
\* arrived, the bytes received so far are kept, and with the last byte
\* exactly the frame is passed on, as when all bytes arrive in one call.
C16_ChunkedFrameSameAsWhole ==
    (Loaded /\ Clean) =>
        /\ wire # <<>> =>
              /\ dispatched = <<>>
              /\ _buffer = SubSeq(Stream, 1, Delivered)
        /\ wire = <<>> =>
              /\ dispatched = <<FrameCall(io.data)>>
              /\ _buffer = <<>>

\* C16 witness: a frame whose length byte is escaped arrived in two or more
\* chunks, one of them ending right after an escape marker.
C16_Witness_CutAfterEscape ==
    /\ io.op = "data_received" /\ Clean /\ wire = <<>>
    /\ io.calls = 2 /\ io.cut
    /\ Len(io.data) = 17
    /\ dispatched = <<FrameCall(io.data)>>

\* C17, as claimed: of a frame with a corrupt checksum followed by a valid
\* frame, the corrupt one is never passed on; once its checksum byte has
\* arrived its bytes are gone from the buffer; and the valid frame, whose
\* bytes arrive in later calls, is passed on with its last byte.
C17_Claimed_ResyncAfterCorruptFrame ==
    [][ (io'.op = "data_received" /\ ~Clean) =>
          LET Lc == Len(io.extra)
              before == Len(Stream) - Len(wire)
              after  == Len(Stream) - Len(wire')
          IN  /\ after <= Lc => dispatched' = <<>>
              /\ (after >= Lc /\ dispatched' = <<>>)
                    => _buffer' = SubSeq(Stream, Lc + 1, after)
              /\ (before >= Lc /\ wire' = <<>>)
                    => dispatched' = <<FrameCall(io.data)>> /\ _buffer' = <<>> ]_vars

----------------------------------------------------------------------------
(* The switch to API mode *)

\* The baud rates of the attempts after the first are the keys of
\* BAUDRATE_TO_BD in ascending order, none left out.
SweepAscends ==
    \A k \in 2 .. Len(task.rates) :
        /\ task.rates[k] \in DOMAIN BAUDRATE_TO_BD
        /\ {task.rates[j] : j \in 2 .. k}
               = {rate \in DOMAIN BAUDRATE_TO_BD : rate <= task.rates[k]}
        /\ k > 2 => task.rates[k - 1] < task.rates[k]

\* What was written so far: one "+++" per attempt, then the commands of
\* the configure-and-exit sequence for the given rate, in order.
WrittenFor(rate) ==
    \A i \in 1 .. Len(written) :
        written[i] = IF i <= task.attempts THEN PLUSES
                     ELSE Cmds(rate)[i - task.attempts] \o <<CR>>

\* C18: init_api_mode makes its first attempt to enter command mode at the
\* port's current baud rate and the following ones at the candidate rates in
\* ascending order, the port switched to the rate of each attempt; once an
\* attempt enters command mode no other attempt is made and the
\* configure-and-exit sequence runs once, for the original rate; and when
\* init_api_mode has returned after it, the port is at the original rate.
C18_SweepThenConfigureAtOriginalRate ==
    /\ task.attempts = Len(task.rates)
    /\ task.rates # <<>> => task.rates[1] = task.current_baudrate
    /\ SweepAscends
    /\ task.pc = "entering" => baudrate = task.rates[Len(task.rates)]
    /\ task.pc \in {"enter", "entering"} => task.configures = 0
    /\ task.configures <= 1
    /\ task.configures = 1 =>
          /\ task.target = task.current_baudrate
          /\ WrittenFor(task.current_baudrate)
          /\ task.pc = "done" => baudrate = task.current_baudrate

\* init_api_mode, started at 57600, entered command mode at 9600, the fifth
\* attempt, and returned True with the port back at 57600.
C18_Witness_EnteredAt9600 ==
    /\ task.pc = "done" /\ task.ret = "True"
    /\ task.rates = <<57600, 1200, 2400, 4800, 9600>>
    /\ baudrate = 57600

\* C19: when no attempt enters command mode, init_api_mode ends after one
\* attempt at the current rate and one at each candidate rate, returning
\* False, and never starts the configure-and-exit sequence; False is
\* returned in no other case; and every call of init_api_mode returns.
C19_AllFailReturnsFalse ==
    /\ [](/\ task.attempts <= 1 + Cardinality(DOMAIN BAUDRATE_TO_BD)
          /\ (task.pc = "done" /\ task.configures = 0) =>
                /\ task.attempts = 1 + Cardinality(DOMAIN BAUDRATE_TO_BD)
                /\ {task.rates[k] : k \in 2 .. Len(task.rates)} = DOMAIN BAUDRATE_TO_BD
                /\ task.ret = "False"
                /\ \A i \in 1 .. Len(written) : written[i] = PLUSES
          /\ task.ret = "False" => task.pc = "done" /\ task.configures = 0)
    /\ (task.pc # "") ~> (task.pc = "done")

\* init_api_mode returned False after ten attempts, none of which entered
\* command mode.
C19_Witness_TenAttempts ==
    /\ task.pc = "done" /\ task.ret = "False"
    /\ task.attempts = 10 /\ task.configures = 0

----------------------------------------------------------------------------
(* probe *)

\* The AT command of probe was answered: a response completed its future,
\* and PROBE_TIMEOUT did not pass before _probe went on.
ProbeAnswered ==
    /\ task.fut # 0 /\ futures[task.fut].st \in {"result", "exception"}
    /\ task.caught # "TimeoutError"

\* The AT command of probe timed out and init_api_mode returned the value.
ProbeInitReturned(values) ==
    task.inits > 0 /\ task.pc = "done" /\ task.ret \in values

\* C20 (as claimed): no exception leaves probe; when probe has ended, it
\* returned True if its AT command was answered, and init_api_mode was not
\* called then, or if the command timed out and init_api_mode returned
\* True, and it returned False if init_api_mode failed; init_api_mode is
\* called at most once and only after the AT command timed out; and a port
\* that was opened is closed exactly once.
C20_Claimed_ProbeAnsweredIsTrue ==
    /\ task.raised = ""
    /\ task.inits <= 1
    /\ task.inits > 0 => futures[task.fut].st = "cancelled"
    /\ task.closes <= 1
    /\ task.probe_pc = "done" =>
          /\ task.result \in {"True", "False"}
          /\ ProbeAnswered => task.result = "True" /\ task.inits = 0
          /\ ProbeInitReturned({"True"}) => task.result = "True"
          /\ ProbeInitReturned({"False", "None"}) => task.result = "False"
          /\ task.fut # 0 => task.closes = 1

----------------------------------------------------------------------------
(* Loss of the connection *)

\* The step is the call of Gateway.connection_lost.
GatewayLost == io.op # "connection_lost" /\ io'.op = "connection_lost"

\* The calls the Gateway made to the session's connection_lost in the step.
LossesNotified ==
    SelectSeq(SubSeq(dispatched', Len(dispatched) + 1, Len(dispatched')),
              LAMBDA c : c.fn = "connection_lost")

\* C21: when Gateway.connection_lost is called without an error, a connected
\* future that is not done is resolved with True and the session is not
\* notified (its fields stay as they are); when it is called with an error,
\* a connected future that is not done is rejected with that error and the
\* session's connection_lost is called exactly once, with the error; a
\* future that is done, or none, stays as it is.
C21_GatewayConnectionLost ==
    [][GatewayLost =>
          LET exc == io'.extra[1]
              fut == _connected_future
          IN  /\ (fut # None /\ ~done(fut[1])) =>
                     _connected_future' =
                         IF exc = "None" THEN Resolved(Bool(TRUE)) ELSE Rejected(exc)
              /\ (fut = None \/ done(fut[1])) => _connected_future' = fut
              /\ exc = "None" => LossesNotified = <<>> /\ UNCHANGED xbee_vars
              /\ exc # "None" =>
                     /\ LossesNotified = <<[fn |-> "connection_lost", exc |-> exc]>>
                     /\ last'.op = "connection_lost" /\ last'.name = exc
    ]_vars

\* A pending connected future was rejected with the error the connection
\* was lost with, and the session was told.
C21_Witness_RejectedAndNotified ==
    /\ io.op = "connection_lost"
    /\ _connected_future = Rejected("SerialException")
    /\ dispatched = <<[fn |-> "connection_lost", exc |-> "SerialException"]>>

\* C22 (as claimed): when the session's connection_lost is called with an
\* error while an application is attached, the application's
\* connection_lost is called exactly once, with that error.
C22_Claimed_LossReachesApplication ==
    [][(last'.op = "connection_lost" /\ last' # last /\ _app # "None") =>
          last'.calls = <<[fn |-> "connection_lost", args |-> <<last'.name>>]>>
    ]_vars

----------------------------------------------------------------------------
(* Timeouts and unsolicited frames *)

\* The step is the timeout of a caller's wait_for.
TimedOut == last'.op = "wait_for" /\ futures' # futures

\* C23: when the timeout of an AT command (local, queued or remote) passes
\* without a reply, the caller gets TimeoutError and its future is
\* cancelled, and nothing is written again: the only steps that write a
\* frame are the _command calls, one frame each, so that every call has
\* written exactly one frame, however it ends.
C23_TimeoutSurfacedNeverRetried ==
    /\ [](Len(futures) = issued)
    /\ [][/\ TimedOut =>
              /\ last'.raised = "TimeoutError"
              /\ futures[last'.ret].st = "pending"
              /\ futures'[last'.ret].st = "cancelled"
              /\ last'.sent = <<>>
              /\ issued' = issued /\ _seq' = _seq
          /\ last'.op = "frame_received" => last'.sent = <<>> /\ issued' = issued
          /\ issued' # issued =>
              /\ issued' = issued + 1
              /\ last'.op = "_command" /\ Len(last'.sent) = 1
       ]_vars

\* Two AT commands were written once each and both ended with
\* TimeoutError.
C23_Witness_BothTimedOut ==
    /\ issued = 2 /\ Len(futures) = 2
    /\ \A i \in 1 .. 2 : futures[i].st = "cancelled"
    /\ last.op = "wait_for" /\ last.raised = "TimeoutError"

\* C24: an explicit-receive indicator that arrives while a listener is
\* attached makes one call, handle_rx with the eight fields of the frame in
\* their order; a modem-status frame makes one call, handle_modem_status
\* with the status, when a listener is attached, whatever the status, and
\* no call otherwise; the calls are made while the frame is handled, so in
\* the order of arrival; and neither frame changes the pending table, the
\* futures or the sequence counter.
C24_UnsolicitedForwardedOnce ==
    [][/\ Received("explicit_rx_indicator") =>
            LET f == last'.frame
            IN  /\ _app # "None" =>
                      /\ last'.raised = ""
                      /\ last'.calls =
                            <<[fn |-> "handle_rx",
                               args |-> <<f.ieee, f.nwk, f.src_ep, f.dst_ep,
                                          f.cluster, f.profile, f.rx_opts, f.value>>]>>
                /\ UNCHANGED <<_awaiting, futures, _seq>>
       /\ Received("modem_status") =>
            /\ last'.raised = ""
            /\ last'.calls =
                  IF _app # "None"
                  THEN <<[fn |-> "handle_modem_status",
                          args |-> <<ModemStatus(last'.frame.status)>>]>>
                  ELSE <<>>
            /\ UNCHANGED <<_awaiting, futures, _seq>>
    ]_vars

\* An explicit-receive indicator with a payload was passed to the listener
\* while a request was pending.
C24_Witness_RxWhilePending ==
    /\ last.op = "frame_received" /\ last.name = "explicit_rx_indicator"
    /\ last.frame.value = <<97, 98>> /\ last.calls # <<>>
    /\ _awaiting # <<>>

\* The buffer holds a complete frame: _extract_frame would return it, or
\* drop it for its checksum.
HoldsCompleteFrame(buffer) ==
    LET r == _extract_frame(buffer)
    IN  r.found \/ r.buffer # buffer

\* C25, as claimed: when data_received returns no complete frame is left in
\* the buffer, and once all bytes have arrived the valid frame has been
\* passed to frame_received exactly once, also when it arrived after a
\* corrupt frame in the same chunk.
C25_Claimed_NoCompleteFrameLeft ==
    [][ io'.op = "data_received" =>
          /\ ~HoldsCompleteFrame(_buffer')
          /\ wire' = <<>> => dispatched' = <<FrameCall(io.data)>> ]_vars

\* C26, as claimed: a reply that arrives for the frame ID of a request whose
\* caller has timed out is received without an exception, removes the
\* entry of that request and touches no other future.
C26_Claimed_LateReplyHarmless ==
    [][ (last'.op = "frame_received" /\ Registered
            /\ futures[Awaited].st = "cancelled") =>
          /\ last'.raised = ""
          /\ EntryRemoved
          /\ OthersUntouched ]_vars

\* C27, as claimed: when _command hands the bytes of a tracked request to
\* the transport, the entry of its frame ID is already in the table.
C27_Claimed_RegisteredBeforeSend ==
    [][ (last'.op = "_command" /\ last'.ret # 0) =>
          last'.frame_id \in last'.pending_at_send ]_vars

\* C27, amended: _command writes the frame while the table is still as it
\* found it and registers the future it returns afterwards, in the same
\* call; a response handler called for a frame ID that has an entry removes
\* that entry and no other, whether it completes the future or raises; and
\* a future that is done is never changed again.
C27_SendThenRegisterPopThenResolve ==
    [][ /\ (last'.op = "_command" /\ last'.sent # <<>>) =>
              /\ last'.pending_at_send = DOMAIN _awaiting
              /\ last'.ret # 0 =>
                    /\ last'.frame_id \in DOMAIN _awaiting'
                    /\ _awaiting'[last'.frame_id] = last'.ret
                    /\ ~done(futures'[last'.ret])
        /\ (last'.op = "frame_received" /\ Registered) => EntryRemoved
        /\ \A i \in DOMAIN futures : done(futures[i]) => futures'[i] = futures[i]
    ]_vars

\* The second request was written and then registered after the reply to
\* the first had removed its entry and completed its future.
C27_Witness_SecondAfterFirstResolved ==
    /\ last.op = "_command" /\ last.ret = 2
    /\ last.frame_id \notin last.pending_at_send
    /\ futures[1].st = "result" /\ DOMAIN _awaiting = {last.frame_id}

\* The step issued a tracked request under a frame ID that had an entry.
Overwrote ==
    /\ last'.op = "_command" /\ last'.ret # 0
    /\ last'.frame_id \in DOMAIN _awaiting

\* The requests issued after request e that are completed.
CompletedSince(e) ==
    {k \in DOMAIN futures : futures[k].born > futures[e].born /\ done(futures[k])}

\* C28, as claimed: a tracked request is given the frame ID of a request
\* whose entry is still in the table only if 255 other requests were
\* completed after that request was issued.
C28_Claimed_CollisionNeeds255Completed ==
    [][ Overwrote =>
          Cardinality(CompletedSince(_awaiting[last'.frame_id])) >= 255 ]_vars

\* C28, amended: a tracked request is given the frame ID of a request whose
\* entry is still in the table only if it is issued a multiple of 255
\* commands after it, that is with at least 254 other commands issued in
\* between, of any kind and completed or not; a command issued with fewer
\* than 254 commands between it and a request leaves that request's entry
\* as it was.
C28_CollisionAfter254OtherCommands ==
    [][ last'.op = "_command" =>
          /\ Overwrote =>
                LET e == _awaiting[last'.frame_id]
                IN  /\ issued - futures[e].born - 1 >= 254
                    /\ (issued - futures[e].born) % 255 = 0
          /\ \A f \in DOMAIN _awaiting :
                issued - futures[_awaiting[f]].born - 1 < 254 =>
                    /\ f \in DOMAIN _awaiting'
                    /\ _awaiting'[f] = _awaiting[f] ]_vars

\* The 256th command took the frame ID of the first request, which was
\* still in the table, while no request at all had been completed.
C28_Witness_OverwrittenNoneCompleted ==
    /\ last.op = "_command" /\ last.ret # 0 /\ issued = 256
    /\ last.frame_id \in last.pending_at_send
    /\ \A k \in DOMAIN futures : ~done(futures[k])

----------------------------------------------------------------------------
(* api_mode_at_commands *)

\* "ATBD<digit>\r" for the rates of the port that have one, then "ATAP2\r",
\* "ATWR\r" and "ATCN\r".
ExpectedLines(rate) ==
    (CASE rate = 1200 -> << <<65, 84, 66, 68, 48, 13>> >>
       [] rate = 57600 -> << <<65, 84, 66, 68, 54, 13>> >>
       [] rate = 230400 -> << <<65, 84, 66, 68, 56, 13>> >>
       [] OTHER -> <<>>)
        \o << <<65, 84, 65, 80, 50, 13>>, <<65, 84, 87, 82, 13>>, <<65, 84, 67, 78, 13>> >>

\* The number of commands api_mode_at_commands has written.
LinesSent == Len(written) - task.attempts

\* The command written last was answered in time with "OK" or with a text
\* that is neither empty nor contains "ERROR": command_mode_at_cmd
\* returns a true value.
Acknowledged ==
    /\ _cmd_mode_future'[1].st = "result"
    /\ \/ _cmd_mode_future'[1].val = Bool(TRUE)
       \/ /\ _cmd_mode_future'[1].val.kind = "str"
          /\ _cmd_mode_future'[1].val.bytes # <<>>

\* C29: api_mode_at_commands writes the baud-rate command, when the rate has
\* one, and then ATAP2, ATWR and ATCN, each followed by a carriage return,
\* in this order and the next one only after command_mode_at_cmd returned a
\* true value for the one before; when it returns a false value or None
\* for a command, api_mode_at_commands returns None, nothing more is
\* written and the command-mode flag stays set; after a true value for the
\* last command the flag is reset and True is returned; and the flag is
\* reset in no other step.
C29_ConfigureInOrderAbortOnFirstFailure ==
    [][ /\ (task.pc = "configure" /\ task'.pc = "configuring") =>
              /\ LinesSent < Len(ExpectedLines(task.target))
              /\ written' = Append(written, ExpectedLines(task.target)[LinesSent + 1])
              /\ _in_command_mode'
        /\ (task.pc = "configuring" /\ task'.pc = "configure") =>
              /\ Acknowledged
              /\ LinesSent < Len(ExpectedLines(task.target))
              /\ UNCHANGED <<written, _in_command_mode>>
        /\ (task.pc = "configuring" /\ task'.pc = "done") =>
              /\ written' = written
              /\ IF Acknowledged
                 THEN /\ LinesSent = Len(ExpectedLines(task.target))
                      /\ task'.ret = "True"
                      /\ ~_in_command_mode'
                 ELSE /\ task'.ret = "None"
                      /\ _in_command_mode'
        /\ task.pc = "done" => written' = written
        /\ (_in_command_mode /\ ~_in_command_mode') =>
              /\ task.pc = "configuring" /\ task'.ret = "True"
              /\ LinesSent = Len(ExpectedLines(task.target))
    ]_vars

\* At 57600 baud "+++" and "ATBD6" were acknowledged with "OK" and "ATAP2"
\* with another text, "ATWR" was answered with "ERROR": None was returned, "ATCN"
\* was not written and the flag is still set.
C29_Witness_AbortedAtATWR ==
    /\ task.pc = "done" /\ task.ret = "None" /\ task.target = 57600
    /\ LinesSent = 3
    /\ written[Len(written)] = <<65, 84, 87, 82, 13>>
    /\ _in_command_mode
    /\ _cmd_mode_future = Some([st |-> "result", val |-> Bool(FALSE)])
    /\ task.attempts = 1
    /\ [i \in DOMAIN dispatched |-> dispatched[i].data] = <<OK, OK, <<72, 105>>, ERROR>>

----------------------------------------------------------------------------
(* _extract_frame *)

\* byte ^ 0x20
Flip20(byte) == IF (byte \div 32) % 2 = 1 THEN byte - 32 ELSE byte + 32

\* The bytes an escaped byte string stands for; an escape marker that is
\* the last byte stands for nothing yet.
RECURSIVE Plain(_)
Plain(bytes) ==
    IF bytes = <<>> THEN <<>>
    ELSE IF bytes[1] # 125 THEN <<bytes[1]>> \o Plain(Tail(bytes))
    ELSE IF Len(bytes) = 1 THEN <<>>
    ELSE <<Flip20(bytes[2])>> \o Plain(SubSeq(bytes, 3, Len(bytes)))

\* The byte string ends with an escape marker that escapes nothing yet.
RECURSIVE EndsInLoneEscape(_)
EndsInLoneEscape(bytes) ==
    /\ bytes # <<>>
    /\ IF bytes[1] # 125 THEN EndsInLoneEscape(Tail(bytes))
       ELSE Len(bytes) = 1 \/ EndsInLoneEscape(SubSeq(bytes, 3, Len(bytes)))

\* The position of the first start marker of a buffer that has one.
FirstStart(buffer) ==
    CHOOSE i \in DOMAIN buffer :
        buffer[i] = 126 /\ \A j \in 1 .. (i - 1) : buffer[j] # 126

\* The positions at which the frame after the first start marker is
\* complete: the bytes after the marker up to there stand for a two-byte
\* length, as many payload bytes and one checksum byte.
FrameEnds(buffer) ==
    {n \in (FirstStart(buffer) + 1) .. Len(buffer) :
        LET bytes == SubSeq(buffer, FirstStart(buffer) + 1, n)
            plain == Plain(bytes)
        IN  /\ ~EndsInLoneEscape(bytes)
            /\ Len(plain) >= 3
            /\ Len(plain) = plain[1] * 256 + plain[2] + 3}

\* C30: a call of _extract_frame on a buffer without a start marker, or in
\* which the frame after the first start marker is not complete (its
\* length, payload or checksum is missing, cut or ends in a lone escape
\* marker), returns None and leaves the buffer as it was; on a buffer with a
\* complete frame it leaves exactly the bytes after the frame's checksum
\* byte, and returns the payload when the checksum is right and None when
\* it is not.
C30_ExtractFrameConsumesOnlyCompleteFrames ==
    [][ io'.op = "_extract_frame" =>
          IF (\A i \in DOMAIN _buffer : _buffer[i] # 126) \/ FrameEnds(_buffer) = {}
          THEN io'.ret = None /\ _buffer' = _buffer
          ELSE LET n       == CHOOSE n \in FrameEnds(_buffer) : TRUE
                   plain   == Plain(SubSeq(_buffer, FirstStart(_buffer) + 1, n))
                   payload == SubSeq(plain, 3, Len(plain) - 1)
               IN  /\ _buffer' = SubSeq(_buffer, n + 1, Len(_buffer))
                   /\ io'.ret = IF (Sum(payload) + plain[Len(plain)]) % 256 = 255
                                THEN Some(payload) ELSE None ]_vars

\* A frame with a corrupt checksum, with a byte before its start marker and
\* a start marker after it, was dropped by one call that returned None and
\* left the start marker that followed.
C30_Witness_CorruptFrameDropped ==
    /\ io.op = "_extract_frame" /\ io.calls = 1
    /\ io.data = <<35, 126, 0, 1, 35, 221, 126>>
    /\ io.ret = None
    /\ _buffer = <<126>>

----------------------------------------------------------------------------
(* Command-mode text lines *)

\* The step is a data_received call: the port delivered bytes.
DataReceived == io'.op = "data_received" /\ Len(wire') < Len(wire)

\* The bytes the call was given.
Chunk == SubSeq(wire, 1, Len(wire) - Len(wire'))

\* C31: in every data_received call the frames are extracted first; then,
\* when the command-mode flag is set and what is left of the buffer ends in
\* a carriage return, the bytes before it are passed once to
\* command_mode_rsp and the buffer is emptied; when the flag is not set
\* nothing is passed to command_mode_rsp and what is left stays in the
\* buffer, a carriage return at its end included; and no other call passes
\* anything on.
C31_LinePathOnlyInCommandMode ==
    [][ /\ DataReceived =>
              LET r == ExtractLoop(_buffer \o Chunk, <<>>)
              IN  IF _in_command_mode /\ r.buffer # <<>>
                        /\ r.buffer[Len(r.buffer)] = 13
                  THEN /\ dispatched' = dispatched \o r.calls \o
                             <<[fn |-> "command_mode_rsp",
                                data |-> SubSeq(r.buffer, 1, Len(r.buffer) - 1)]>>
                       /\ _buffer' = <<>>
                  ELSE /\ dispatched' = dispatched \o r.calls
                       /\ _buffer' = r.buffer
        /\ ~DataReceived => UNCHANGED <<dispatched, _buffer>>
    ]_vars

\* In command mode "OK" was passed on as text; after reset_command_mode a
\* second "OK\r" arrived and stays in the buffer.
C31_Witness_LineKeptAfterReset ==
    /\ dispatched = <<[fn |-> "command_mode_rsp", data |-> OK]>>
    /\ _buffer = <<79, 75, 13>> /\ wire = <<>>
    /\ ~_in_command_mode /\ written # <<>>
    /\ io.op = "data_received"

\* The step's data_received call passed a text line to command_mode_rsp.
LineDispatched ==
    /\ DataReceived /\ Len(dispatched') > Len(dispatched)
    /\ dispatched'[Len(dispatched')].fn = "command_mode_rsp"

\* The text of that line: its ASCII bytes.
LineText == SelectSeq(dispatched'[Len(dispatched')].data, LAMBDA b : b < 128)

\* C32: a text line completes the command-mode future only when there is
\* one and it is pending: with True when the text contains "OK", otherwise
\* with False when it contains "ERROR", otherwise with the text; with no
\* future, or one that is done or cancelled, the line changes nothing; a
\* future that is done changes only by being replaced by the new future of
\* the next command_mode_at_cmd; and command_mode_at_cmd returns the
\* result of its future, or None, raising nothing, when the timeout passes
\* first, which cancels the future.
C32_CommandModeFutureCompletedOnce ==
    [][ /\ LineDispatched =>
              IF _cmd_mode_future = <<>> \/ _cmd_mode_future[1].st # "pending"
              THEN _cmd_mode_future' = _cmd_mode_future
              ELSE /\ _cmd_mode_future'[1].st = "result"
                   /\ _cmd_mode_future'[1].val =
                         IF Contains(LineText, <<79, 75>>)
                         THEN [kind |-> "bool", num |-> 1, bytes |-> <<>>, text |-> ""]
                         ELSE IF Contains(LineText, <<69, 82, 82, 79, 82>>)
                         THEN [kind |-> "bool", num |-> 0, bytes |-> <<>>, text |-> ""]
                         ELSE [kind |-> "str", num |-> 0, bytes |-> LineText, text |-> ""]
        /\ (DataReceived /\ ~LineDispatched) =>
              _cmd_mode_future' = _cmd_mode_future
        /\ (_cmd_mode_future # <<>> /\ _cmd_mode_future' # _cmd_mode_future
                /\ _cmd_mode_future[1].st # "pending") =>
              /\ task.pc = "" /\ task'.pc = "command_mode_at_cmd"
              /\ _cmd_mode_future'[1].st = "pending"
        /\ (task.pc = "command_mode_at_cmd" /\ task'.pc = "") =>
              IF _cmd_mode_future[1].st = "pending"
              THEN /\ io'.ret = <<NoValue>>
                   /\ _cmd_mode_future'[1].st = "cancelled"
              ELSE /\ _cmd_mode_future[1].st = "result"
                   /\ io'.ret = <<_cmd_mode_future[1].val>>
                   /\ _cmd_mode_future' = _cmd_mode_future
    ]_vars

\* command_mode_at_cmd returned None after its timeout; "OK" arrived
\* afterwards, was passed on as a text line and left the cancelled future
\* as it was.
C32_Witness_LateResponseIgnored ==
    /\ _cmd_mode_future # <<>> /\ _cmd_mode_future[1].st = "cancelled"
    /\ io.op = "data_received" /\ io.ret = <<NoValue>>
    /\ dispatched = <<[fn |-> "command_mode_rsp", data |-> OK]>>
    /\ task.pc = ""

----------------------------------------------------------------------------
(* The bytes send writes *)

\* C33: every frame send has written begins with 0x7E; after that byte
\* none of 0x7E, 0x11 and 0x13 occurs, and 0x7D occurs only followed by
\* 0x5E, 0x5D, 0x31 or 0x33, a reserved byte XOR 0x20.
C33_WrittenFrameHasNoBareReservedByte ==
    \A k \in DOMAIN written :
        LET frame == written[k]
        IN  /\ Len(frame) >= 4
            /\ frame[1] = 126
            /\ \A i \in 2 .. Len(frame) :
                  /\ frame[i] \notin {126, 17, 19}
                  /\ frame[i] = 125 =>
                        /\ i < Len(frame)
                        /\ frame[i + 1] \in {94, 93, 49, 51}

\* The payload 7E 7D was written as 7E 00 02 7D 5E 7D 5D 04.
C33_Witness_ReservedPayload ==
    /\ io.op = "send" /\ io.data = <<126, 125>>
    /\ written = << <<126, 0, 2, 125, 94, 125, 93, 4>> >>

----------------------------------------------------------------------------
(* Popped entries *)

\* C34, as claimed: when the handler of a received frame removes the entry
\* of a pending future from the table, that future is resolved or rejected
\* by the same call.
C34_Claimed_PoppedFutureCompleted ==
    [][ (last'.op = "frame_received" /\ Registered
            /\ last'.frame_id \notin DOMAIN _awaiting'
            /\ futures[Awaited].st = "pending") =>
          futures'[Awaited].st \in {"result", "exception"} ]_vars

----------------------------------------------------------------------------
(* The state init_api_mode leaves *)

\* C35, as claimed: when init_api_mode has returned, the port is at the
\* baud rate it had when init_api_mode was called.
C35_Claimed_BaudrateRestored ==
    task.pc = "done" => baudrate = task.current_baudrate

\* C36, as claimed: when init_api_mode has returned, with success or with
\* failure, the command-mode flag of the Gateway is clear.
C36_Claimed_FlagClearAfterInit ==
    task.pc = "done" => ~_in_command_mode

\* C37, as claimed: when the frames of a data_received call are extracted
\* and what is left holds a start marker, the beginning of a frame that is
\* not complete, the call keeps what is left in the buffer, also when it
\* ends in 0x0D and whatever the command-mode flag.
C37_Claimed_PartialFrameKept ==
    [][ DataReceived =>
          LET r == ExtractLoop(_buffer \o Chunk, <<>>)
          IN  (\E i \in DOMAIN r.buffer : r.buffer[i] = 126) =>
                  /\ _buffer' = r.buffer
                  /\ dispatched' = dispatched \o r.calls ]_vars

\* The seconds a reconnection task sleeps after its 1st, 2nd, ... failed
\* attempt, as the claims state them.
StatedWaits == <<2, 4, 8, 16, 32, 32, 32, 32, 32>>

\* The reconnection tasks that have not ended.
ActiveTasks == {i \in DOMAIN _conn_lost_task : _conn_lost_task[i].st = "running"}

\* A step of XBee.connection_lost: one more task is recorded.
LossStep == Len(_conn_lost_task') = Len(_conn_lost_task) + 1

\* At most one reconnection task is active, the one created last; an active
\* task is at a connect attempt or asleep, and every task has slept 2, 4,
\* 8, 16, 32, 32, ... seconds, one sleep per failed attempt.
OneTaskBackoff ==
    /\ Cardinality(ActiveTasks) <= 1
    /\ ActiveTasks \subseteq {Len(_conn_lost_task)}
    /\ \A i \in DOMAIN _conn_lost_task :
          /\ _conn_lost_task[i].st = "running" => _conn_lost_task[i].pc \in {"reconnect", "sleep"}
          /\ Len(_conn_lost_task[i].waits) = _conn_lost_task[i].attempt - 1
          /\ \A k \in DOMAIN _conn_lost_task[i].waits :
                _conn_lost_task[i].waits[k] = StatedWaits[k]

\* A connection_lost clears the transport reference, leaves no earlier task
\* active and starts a new task at its first attempt; in any other step a
\* task that counts a failed attempt stays active and goes to sleep, and a
\* task ends only with the transport set, "done" exactly when its own
\* attempt stored the transport.
TaskLifecycleStep ==
    /\ LossStep =>
          /\ _uart' = "None"
          /\ ActiveTasks' = {Len(_conn_lost_task')}
          /\ _conn_lost_task'[Len(_conn_lost_task')].attempt = 1
          /\ _conn_lost_task'[Len(_conn_lost_task')].waits = <<>>
          /\ \A i \in DOMAIN _conn_lost_task :
                _conn_lost_task'[i].st =
                   IF i \in ActiveTasks THEN "cancelled" ELSE _conn_lost_task[i].st
    /\ ~LossStep =>
          \A i \in DOMAIN _conn_lost_task :
             /\ _conn_lost_task'[i].attempt # _conn_lost_task[i].attempt =>
                   /\ _conn_lost_task'[i].st = "running"
                   /\ _conn_lost_task'[i].pc = "sleep"
                   /\ _uart' = "None"
             /\ _conn_lost_task'[i].st # _conn_lost_task[i].st =>
                   /\ _conn_lost_task[i].st = "running"
                   /\ _conn_lost_task'[i].st \in {"done", "AssertionError"}
                   /\ _uart' = "Gateway"
                   /\ _conn_lost_task'[i].st = "done" <=> _uart = "None"

\* C38: at most one reconnection task is active at any time: each
\* connection_lost clears the transport reference, cancels a still-running
\* earlier task and starts a new one; the task retries connect with waits of
\* 2, 4, 8, 16, 32, 32, ... seconds after each timeout or OS error, never
\* gives up, and ends with the transport set as soon as one connect attempt
\* succeeds (or on the assertion of connect() when the application has
\* connected meanwhile).
C38_OneReconnectTaskWithBackoff == []OneTaskBackoff /\ [][TaskLifecycleStep]_vars

\* C38 witness: the first task was cancelled by the second loss, and the
\* second task reconnected after six failed attempts.
C38_Witness_CancelledAndSixWaits ==
    /\ Len(_conn_lost_task) = 2
    /\ _conn_lost_task[1].st = "cancelled"
    /\ _conn_lost_task[2].st = "done"
    /\ _conn_lost_task[2].waits = <<2, 4, 8, 16, 32, 32>>
    /\ _uart = "Gateway"

\* C39 (as claimed; violated): after close() the transport reference stays
\* absent until connect() is called explicitly, also when a reconnection
\* task is still running: the only step that stores a transport after a
\* close() is a connect() of the application, which leaves the
\* reconnection tasks as they are.
C39_Claimed_ClosedUntilExplicitConnect ==
    [][(last.op = "close" /\ _uart = "None" /\ _uart' # "None")
          => _conn_lost_task' = _conn_lost_task]_vars

\* A step of connect, reconnect, connection_lost or close: the transport
\* reference or the reconnection tasks change, or close() was called.
TransportStep ==
    \/ _uart' # _uart
    \/ _conn_lost_task' # _conn_lost_task
    \/ last'.op \in {"connect", "reconnect", "connection_lost", "close"}

\* C40: connection_lost, close, connect and the reconnection task leave
\* the pending table, the futures of the requests in flight, the sequence
\* counter and the reset/started latches unchanged: no request is rejected
\* by a disconnect, and its entry is still there when the transport is back.
C40_DisconnectLeavesSessionState ==
    [][TransportStep =>
          /\ _awaiting' = _awaiting
          /\ futures' = futures
          /\ _seq' = _seq
          /\ _reset' = _reset
          /\ _running' = _running]_vars

\* C40 witness: the reconnection task has just re-opened the transport; a
\* request issued before the loss is still in the table with its future
\* pending, the counter has moved past it and the started latch is set.
C40_Witness_PendingAcrossReconnect ==
    /\ last.op = "reconnect" /\ _uart = "Gateway"
    /\ _conn_lost_task[Len(_conn_lost_task)].st = "done"
    /\ DOMAIN _awaiting = {1} /\ _seq = 2
    /\ futures[1].st = "pending"
    /\ _running /\ ~_reset

====
